---- MODULE Spec2Model ----
(***************************************************************************)
(* Model of the WhatsApp messaging core of payaid-whatsapp: the store      *)
(* tables the route handlers read and write through prisma, and the route  *)
(* handlers themselves, one action per stretch of handler code between two *)
(* awaited store or provider calls (the points where another request can   *)
(* interleave on the node event loop).                                     *)
(*                                                                         *)
(* Conventions: a table is a sequence of rows and a row's id is its index; *)
(* 0 is the null id and the null time, "" the null/empty string.           *)
(***************************************************************************)
EXTENDS Integers, Sequences, FiniteSets, TLC

\* ------------------------------------------------------------------ bounds
\* Requests let in over one behaviour of the status-webhook, the
\* inbound-webhook and the send specification.
MaxStatusRequests == 3
MaxInboundRequests == 3
MaxSendRequests == 1
\* Last value of the wall clock (new Date()); the clock starts at 1.
MaxTime == 2
\* Inbound webhooks let in when sessions of two tenants receive.
MaxTenantRequests == 2
\* Requests let in when a send and inbound webhooks overlap.
MaxRaceRequests == 2
\* Browser arrivals at the OAuth callback over one behaviour.
MaxOAuthRequests == 2

\* ------------------------------------------------------------------ domains
Procs == {"p1", "p2"}
Tenants == {"t1", "t2"}
Phones == {"+911", "+912"}
ProviderMsgIds == {"wamid-1", "wamid-2"}

\* ------------------------------------------------------------------ state
VARIABLES
    accounts,       \* WhatsappAccount rows
    sessions,       \* WhatsappSession rows
    contacts,       \* Contact rows
    identities,     \* WhatsappContactIdentity rows
    conversations,  \* WhatsappConversation rows
    messages,       \* WhatsappMessage rows
    templates,      \* WhatsappTemplate rows
    auditLog,       \* WhatsappAuditLog rows
    providerCalls,  \* the distinct requests the bridge provider has received
    now,            \* the wall clock
    started,        \* number of requests let in so far
    procs           \* per in-flight request: handler, position, locals, response

tables == <<accounts, sessions, contacts, identities, conversations, messages,
            templates, auditLog>>
vars == <<accounts, sessions, contacts, identities, conversations, messages,
          templates, auditLog, providerCalls, now, started, procs>>

\* ------------------------------------------------------------------ helpers
Ids(table) == 1..Len(table)

\* prisma findFirst / findUnique: of the ids of the rows satisfying the
\* filter, the first; 0 (null) if there is none.
Min(S) == CHOOSE x \in S : \A y \in S : x <= y
FindFirst(matching) == IF matching = {} THEN 0 ELSE Min(matching)

\* Faulty variant of UpdateRow: the update has no where clause and replaces
\* the fields of data in every row of the table.
UpdateEveryRow(table, id, data) ==
    [r \in DOMAIN table |->
        [f \in DOMAIN table[r] |-> IF f \in DOMAIN data THEN data[f] ELSE table[r][f]]]

\* prisma update({where: {id}, data}): the row with the fields of data replaced.
UpdateRow(table, id, data) ==
    [table EXCEPT ![id] =
        [f \in DOMAIN table[id] |-> IF f \in DOMAIN data THEN data[f] ELSE table[id][f]]]

\* JS `timestamp ? new Date(timestamp * 1000) : new Date()`
EventTime(timestamp) == IF timestamp # 0 THEN timestamp ELSE now

\* String.prototype.toUpperCase on the status and state words the provider
\* sends.
ToUpperCase(s) ==
    CASE s = "delivered" -> "DELIVERED"
      [] s = "connected" -> "CONNECTED"
      [] s = "Connected" -> "CONNECTED"
      [] s = "disconnected" -> "DISCONNECTED"
      [] s = "Delivered" -> "DELIVERED"
      [] s = "ack"       -> "ACK"
      [] s = "read"      -> "READ"
      [] s = "Read"      -> "READ"
      [] s = "failed"    -> "FAILED"
      [] s = "error"     -> "ERROR"
      [] s = "played"    -> "PLAYED"
      [] OTHER           -> s

\* NextResponse.json(body, {status})
Response(status, error) == [status |-> status, error |-> error, row |-> 0]
ResponseRow(status, row) == [status |-> status, error |-> "", row |-> row]

NoReq == [kind |-> "none"]
NoLoc == [kind |-> "none"]
NoRes == Response(0, "")
Idle == [op |-> "idle", pc |-> "idle", req |-> NoReq, loc |-> NoLoc, res |-> NoRes]

Finish(p, res) ==
    procs' = [procs EXCEPT ![p].pc = "done", ![p].res = res]
Goto(p, pc, loc) ==
    procs' = [procs EXCEPT ![p].pc = pc, ![p].loc = loc]
Begin(p, max) ==
    /\ procs[p].pc = "idle"
    /\ started < max
    /\ started' = started + 1

Start(p, op, pc, req, loc) ==
    procs' = [procs EXCEPT ![p] =
        [op |-> op, pc |-> pc, req |-> req, loc |-> loc, res |-> NoRes]]
Reject(p, op, req, res) ==
    procs' = [procs EXCEPT ![p] =
        [op |-> op, pc |-> "done", req |-> req, loc |-> NoLoc, res |-> res]]

\* `account.tenantId !== tenantId` (sessions/route.ts line 27, part_001 line
\* 88, part_002 line 97, part_003 line 103, part_004 line 159), negated: the
\* account belongs to the caller's tenant.
OwnedBy(accountId, tenantId) == accounts[accountId].tenantId = tenantId

\* ------------------------------------------------------------------ status webhook
\* POST /api/whatsapp/webhooks/status
StatusWords == {"DELIVERED", "ack", "READ", "read", "FAILED", "error", "played", ""}

\* Well-formed webhooks for a known or an unknown message id, and one
\* malformed payload of each kind the handler tells apart.
StatusRequests ==
    [instance : {"waha-1"}, hasData : {TRUE}, id : {"wamid-1", "wamid-9"},
     status : StatusWords, timestamp : {0, MaxTime}]
    \cup {[instance |-> "", hasData |-> TRUE, id |-> "wamid-1", status |-> "READ",
           timestamp |-> 0],
          [instance |-> "waha-1", hasData |-> FALSE, id |-> "", status |-> "",
           timestamp |-> 0],
          [instance |-> "waha-1", hasData |-> TRUE, id |-> "", status |-> "READ",
           timestamp |-> 0]}

\* Lines 40-56: the status and timestamps the handler will write, from the
\* row it read and the webhook's status word.
MapStatus(message, wahaStatus, timestamp) ==
    LET statusUpper == ToUpperCase(wahaStatus) IN
    IF statusUpper = "DELIVERED" \/ statusUpper = "ACK" THEN
        [status |-> "delivered",
         deliveredAt |-> IF message.deliveredAt = 0 THEN EventTime(timestamp)
                         ELSE message.deliveredAt,
         readAt |-> message.readAt]
    ELSE IF statusUpper = "READ" THEN
        [status |-> "read", deliveredAt |-> message.deliveredAt,
         readAt |-> EventTime(timestamp)]
    ELSE IF statusUpper = "FAILED" \/ statusUpper = "ERROR" THEN
        [status |-> "failed", deliveredAt |-> message.deliveredAt,
         readAt |-> message.readAt]
    ELSE
        [status |-> message.status, deliveredAt |-> message.deliveredAt,
         readAt |-> message.readAt]

\* Lines 8-56: validate the payload, find the message, compute the update.
StatusFind(p, req) ==
    /\ Begin(p, MaxStatusRequests)
    /\ LET id == FindFirst({m \in Ids(messages) : messages[m].whatsappMessageId = req.id})
       IN  IF req.instance = "" \/ ~req.hasData THEN
               Reject(p, "status", req, Response(400, "Invalid webhook payload"))
           ELSE IF req.id = "" THEN
               Reject(p, "status", req, Response(400, "Missing message ID"))
           ELSE IF id = 0 THEN
               Reject(p, "status", req, Response(404, "Message not found"))
           ELSE
               Start(p, "status", "update", req,
                     [messageId |-> id,
                      data |-> MapStatus(messages[id], req.status, req.timestamp)])
    /\ UNCHANGED <<tables, providerCalls, now>>

\* Lines 58-68: write status, deliveredAt and readAt; answer success.
StatusUpdate(p) ==
    /\ procs[p].op = "status" /\ procs[p].pc = "update"
    /\ messages' = UpdateRow(messages, procs[p].loc.messageId, procs[p].loc.data)
    /\ Finish(p, Response(200, ""))
    /\ UNCHANGED <<accounts, sessions, contacts, identities, conversations, templates,
                   auditLog, providerCalls, now, started>>

\* ------------------------------------------------------------------ inbound-message webhook
\* POST /api/whatsapp/webhooks/message
\* Well-formed webhooks to the known instance, and one payload of each kind
\* the handler drops.
InboundRequests ==
    [instance : {"waha-1"}, hasData : {TRUE}, from : Phones, text : {"Hi"},
     type : {"text"}, id : ProviderMsgIds, timestamp : {MaxTime}, mediaUrl : {""}]
    \cup {[instance |-> "waha-1", hasData |-> TRUE, from |-> "+911", text |-> "",
           type |-> "image", id |-> "wamid-1", timestamp |-> 0,
           mediaUrl |-> "http://m/a.png"],
          [instance |-> "waha-x", hasData |-> TRUE, from |-> "+911", text |-> "Hi",
           type |-> "text", id |-> "wamid-1", timestamp |-> 0, mediaUrl |-> ""],
          [instance |-> "", hasData |-> TRUE, from |-> "+911", text |-> "Hi",
           type |-> "text", id |-> "wamid-1", timestamp |-> 0, mediaUrl |-> ""],
          [instance |-> "waha-1", hasData |-> TRUE, from |-> "", text |-> "Hi",
           type |-> "text", id |-> "wamid-1", timestamp |-> 0, mediaUrl |-> ""]}

\* Faulty variant of SessionOfInstance: an unknown instance falls back to the
\* first session.
FirstSessionForInstance(instance) == FindFirst(Ids(sessions))

\* Lines 19-22: whatsappSession.findFirst({providerSessionId: instance}).
SessionOfInstance(instance) ==
    FindFirst({s \in Ids(sessions) : sessions[s].providerSessionId = instance})

\* Lines 8-43: validate the payload, find the session by providerSessionId
\* (with its account), extract the fields, require a sender number. The
\* message time is fixed here, once (line 36): the payload's timestamp, or
\* the clock when the payload has none.
InboundFindSession(p, req) ==
    /\ Begin(p, MaxInboundRequests)
    /\ LET sid == SessionOfInstance(req.instance)
       IN  IF req.instance = "" \/ ~req.hasData THEN
               Reject(p, "inbound", req, Response(400, "Invalid webhook payload"))
           ELSE IF sid = 0 THEN
               Reject(p, "inbound", req, Response(404, "Session not found"))
           ELSE IF req.from = "" THEN
               Reject(p, "inbound", req, Response(400, "Missing from number"))
           ELSE
               Start(p, "inbound", "findIdentity", req,
                     [sessionId |-> sid,
                      accountId |-> sessions[sid].accountId,
                      tenantId |-> accounts[sessions[sid].accountId].tenantId,
                      phoneNumber |-> sessions[sid].phoneNumber,
                      recvCount |-> sessions[sid].dailyRecvCount,
                      timestamp |-> EventTime(req.timestamp),
                      seenAt |-> 0,
                      identityFound |-> FALSE,
                      contactId |-> 0, conversationId |-> 0])
    /\ UNCHANGED <<tables, providerCalls, now>>

\* Lines 45-51: whatsappContactIdentity.findUnique({whatsappNumber});
\* identityFound is whether the lookup returned a row (line 51).
InboundFindIdentity(p) ==
    /\ procs[p].op = "inbound" /\ procs[p].pc = "findIdentity"
    /\ LET iid == FindFirst({i \in Ids(identities) :
                                 identities[i].whatsappNumber = procs[p].req.from})
       IN  IF iid = 0 THEN Goto(p, "createContact", procs[p].loc)
           ELSE Goto(p, "findConversation",
                     [procs[p].loc EXCEPT !.contactId = identities[iid].contactId,
                                          !.identityFound = TRUE])
    /\ UNCHANGED <<tables, providerCalls, now, started>>

\* Lines 53-63: contact.create.
InboundCreateContact(p) ==
    /\ procs[p].op = "inbound" /\ procs[p].pc = "createContact"
    /\ contacts' = Append(contacts,
           [tenantId |-> procs[p].loc.tenantId, phone |-> procs[p].req.from,
            name |-> procs[p].req.from, source |-> "whatsapp"])
    /\ Goto(p, "createIdentity", [procs[p].loc EXCEPT !.contactId = Len(contacts) + 1])
    /\ UNCHANGED <<accounts, sessions, identities, conversations, messages, templates,
                   auditLog, providerCalls, now, started>>

\* The store's unique index on WhatsappContactIdentity.whatsappNumber (the
\* field findUnique addresses at line 47).
IdentityNumberTaken(number) == \E i \in Ids(identities) : identities[i].whatsappNumber = number

\* Lines 65-73: whatsappContactIdentity.create; a duplicate number makes the
\* store throw, which the handler's catch (lines 148-153) answers with 500.
InboundCreateIdentity(p) ==
    /\ procs[p].op = "inbound" /\ procs[p].pc = "createIdentity"
    /\ IF IdentityNumberTaken(procs[p].req.from) THEN
           /\ Finish(p, Response(500, "Webhook processing failed"))
           /\ UNCHANGED identities
       ELSE
           /\ identities' = Append(identities,
                  [contactId |-> procs[p].loc.contactId,
                   whatsappNumber |-> procs[p].req.from])
           /\ Goto(p, "findConversation", procs[p].loc)
    /\ UNCHANGED <<accounts, sessions, contacts, conversations, messages, templates,
                   auditLog, providerCalls, now, started>>

\* Lines 76-84: whatsappConversation.findUnique({accountId_contactId}).
InboundFindConversation(p) ==
    /\ procs[p].op = "inbound" /\ procs[p].pc = "findConversation"
    /\ LET cid == FindFirst({c \in Ids(conversations) :
                                 /\ conversations[c].accountId = procs[p].loc.accountId
                                 /\ conversations[c].contactId = procs[p].loc.contactId})
       IN  IF cid = 0 THEN Goto(p, "createConversation", procs[p].loc)
           ELSE Goto(p, "createMessage", [procs[p].loc EXCEPT !.conversationId = cid])
    /\ UNCHANGED <<tables, providerCalls, now, started>>

\* Faulty variant of ConversationPairTaken: the store has no unique index on the pair.
NoConversationPairIndex(accountId, contactId) == FALSE

\* The store's unique index on WhatsappConversation (accountId, contactId)
\* (the compound key findUnique addresses at line 79).
ConversationPairTaken(accountId, contactId) ==
    \E c \in Ids(conversations) :
        conversations[c].accountId = accountId /\ conversations[c].contactId = contactId

\* Lines 86-95: whatsappConversation.create; a duplicate pair makes the store
\* throw (500).
InboundCreateConversation(p) ==
    /\ procs[p].op = "inbound" /\ procs[p].pc = "createConversation"
    /\ IF ConversationPairTaken(procs[p].loc.accountId, procs[p].loc.contactId) THEN
           /\ Finish(p, Response(500, "Webhook processing failed"))
           /\ UNCHANGED conversations
       ELSE
           /\ conversations' = Append(conversations,
                  [accountId |-> procs[p].loc.accountId,
                   contactId |-> procs[p].loc.contactId,
                   sessionId |-> procs[p].loc.sessionId,
                   status |-> "open", lastMessageAt |-> 0, lastDirection |-> "",
                   unreadCount |-> 0, ticketId |-> 0])
           /\ Goto(p, "createMessage",
                   [procs[p].loc EXCEPT !.conversationId = Len(conversations) + 1])
    /\ UNCHANGED <<accounts, sessions, contacts, identities, messages, templates,
                   auditLog, providerCalls, now, started>>

\* Lines 97-114: whatsappMessage.create for the inbound message.
InboundCreateMessage(p) ==
    /\ procs[p].op = "inbound" /\ procs[p].pc = "createMessage"
    /\ messages' = Append(messages,
           [conversationId |-> procs[p].loc.conversationId,
            sessionId |-> procs[p].loc.sessionId,
            direction |-> "in",
            messageType |-> procs[p].req.type,
            whatsappMessageId |-> procs[p].req.id,
            fromNumber |-> procs[p].req.from,
            toNumber |-> procs[p].loc.phoneNumber,
            text |-> procs[p].req.text,
            mediaUrl |-> procs[p].req.mediaUrl,
            templateId |-> 0,
            status |-> "delivered",
            errorCode |-> "", errorMessage |-> "",
            sentAt |-> 0, deliveredAt |-> 0, readAt |-> 0,
            createdAt |-> procs[p].loc.timestamp])
    /\ Goto(p, "updateConversation", procs[p].loc)
    /\ UNCHANGED <<accounts, sessions, contacts, identities, conversations, templates,
                   auditLog, providerCalls, now, started>>

\* Lines 116-124: whatsappConversation.update; {increment: 1} is applied by
\* the store to the stored value. When it returns the handler issues the
\* session update, whose `new Date()` (line 131) is the clock of this step
\* (seenAt).
InboundUpdateConversation(p) ==
    /\ procs[p].op = "inbound" /\ procs[p].pc = "updateConversation"
    /\ LET cid == procs[p].loc.conversationId IN
       conversations' = UpdateRow(conversations, cid,
           [lastMessageAt |-> procs[p].loc.timestamp,
            lastDirection |-> "in",
            unreadCount |-> conversations[cid].unreadCount + 1])
    /\ Goto(p, "updateSession", [procs[p].loc EXCEPT !.seenAt = now])
    /\ UNCHANGED <<accounts, sessions, contacts, identities, messages, templates,
                   auditLog, providerCalls, now, started>>

\* Faulty variant of RecvCountAfter: the handler adds one to the counter it read with
\* the session and writes the sum back.
RecvCountFromSnapshot(stored, readAtStart) == readAtStart + 1

\* Lines 127-133, data.dailyRecvCount: {increment: 1} is applied by the store
\* to the stored counter, not to the value the handler read at line 19.
RecvCountAfter(stored, readAtStart) == stored + 1

\* Lines 126-133: whatsappSession.update, with the date taken when it was
\* issued.
InboundUpdateSession(p) ==
    /\ procs[p].op = "inbound" /\ procs[p].pc = "updateSession"
    /\ LET sid == procs[p].loc.sessionId IN
       sessions' = UpdateRow(sessions, sid,
           [dailyRecvCount |-> RecvCountAfter(sessions[sid].dailyRecvCount,
                                              procs[p].loc.recvCount),
            lastSeenAt |-> procs[p].loc.seenAt])
    /\ Goto(p, "audit", procs[p].loc)
    /\ UNCHANGED <<accounts, contacts, identities, conversations, messages, templates,
                   auditLog, providerCalls, now, started>>

\* Lines 135-147: whatsappAuditLog.create, then the success response.
InboundAudit(p) ==
    /\ procs[p].op = "inbound" /\ procs[p].pc = "audit"
    /\ auditLog' = Append(auditLog,
           [accountId |-> procs[p].loc.accountId, sessionId |-> procs[p].loc.sessionId,
            action |-> "message_receive", status |-> "success"])
    /\ Finish(p, Response(200, ""))
    /\ UNCHANGED <<accounts, sessions, contacts, identities, conversations, messages,
                   templates, providerCalls, now, started>>

\* Lines 19-22 and 148-153: the session lookup throws; the catch answers 500.
InboundFindSessionFails(p, req) ==
    /\ Begin(p, MaxInboundRequests)
    /\ req.instance # "" /\ req.hasData
    /\ Reject(p, "inbound", req, Response(500, "Webhook processing failed"))
    /\ UNCHANGED <<tables, providerCalls, now>>

\* Lines 46-145 and 148-153: a store call, read or write, that throws takes
\* the handler to its catch, which answers 500; the writes made before it stay.
InboundStoreFails(p) ==
    /\ procs[p].op = "inbound"
    /\ procs[p].pc \in {"findIdentity", "createContact", "createIdentity",
                        "findConversation", "createConversation", "createMessage",
                        "updateConversation", "updateSession", "audit"}
    /\ Finish(p, Response(500, "Webhook processing failed"))
    /\ UNCHANGED <<tables, providerCalls, now, started>>

\* ------------------------------------------------------------------ send
\* An optional string field that the JSON body does not carry.
Undefined == "undefined"

\* POST /api/whatsapp/messages/send
\* A caller as the auth collaborator resolves it, and the body: json says
\* whether it parses as JSON, the other fields are what the parsed body holds
\* (absent for a body that does not parse).
\* By the owner: every combination of the three payload fields on the
\* conversation with a bound session, each single field on the conversation
\* without one; and one request of each kind the handler turns away early.
SendRequests ==
    [tenantId : {"t1"}, licensed : {TRUE}, json : {TRUE}, conversationId : {1},
     text : {"", "hello"}, mediaUrl : {Undefined, "http://m/a.png"}, templateId : {0, 1}]
    \cup {[tenantId |-> "t1", licensed |-> TRUE, json |-> TRUE, conversationId |-> 2,
           text |-> "hello", mediaUrl |-> Undefined, templateId |-> 0],
          [tenantId |-> "t1", licensed |-> TRUE, json |-> TRUE, conversationId |-> 2,
           text |-> "", mediaUrl |-> "http://m/a.png", templateId |-> 0],
          [tenantId |-> "t1", licensed |-> TRUE, json |-> TRUE, conversationId |-> 2,
           text |-> "", mediaUrl |-> Undefined, templateId |-> 1],
          [tenantId |-> "t1", licensed |-> TRUE, json |-> TRUE, conversationId |-> 1,
           text |-> "", mediaUrl |-> Undefined, templateId |-> 9],
          [tenantId |-> "t1", licensed |-> FALSE, json |-> TRUE, conversationId |-> 1,
           text |-> "hello", mediaUrl |-> Undefined, templateId |-> 0],
          [tenantId |-> "t1", licensed |-> TRUE, json |-> TRUE, conversationId |-> 0,
           text |-> "hello", mediaUrl |-> Undefined, templateId |-> 0],
          [tenantId |-> "t1", licensed |-> TRUE, json |-> TRUE, conversationId |-> 1,
           text |-> "", mediaUrl |-> "not a url", templateId |-> 0],
          [tenantId |-> "t1", licensed |-> TRUE, json |-> TRUE, conversationId |-> 1,
           text |-> "hello", mediaUrl |-> "", templateId |-> 0],
          [tenantId |-> "t1", licensed |-> TRUE, json |-> TRUE, conversationId |-> 9,
           text |-> "hello", mediaUrl |-> Undefined, templateId |-> 0],
          [tenantId |-> "t2", licensed |-> TRUE, json |-> TRUE, conversationId |-> 1,
           text |-> "hello", mediaUrl |-> Undefined, templateId |-> 0],
          [tenantId |-> "t2", licensed |-> TRUE, json |-> TRUE, conversationId |-> 1,
           text |-> "", mediaUrl |-> Undefined, templateId |-> 0],
          [tenantId |-> "t1", licensed |-> TRUE, json |-> FALSE, conversationId |-> 0,
           text |-> "", mediaUrl |-> Undefined, templateId |-> 0]}

\* z.string().url() on the media URLs the model offers; the empty string is
\* not a URL.
IsUrl(u) == u = "http://m/a.png"

\* Lines 118-123, 132: sendMessageSchema.parse. For conversationId, text and
\* templateId 0 and "" stand for an absent or an empty field (the schema
\* accepts an empty text or templateId). mediaUrl is optional, but when
\* present it must be a URL: Undefined is the absent field, "" the empty
\* string, which the schema rejects.
SendSchemaOk(req) ==
    /\ req.conversationId # 0
    /\ (req.mediaUrl # Undefined => IsUrl(req.mediaUrl))

\* Lines 134-139: at least one of text, mediaUrl, templateId is truthy.
SendPayloadOk(req) == ~(req.text = "" /\ req.mediaUrl = Undefined /\ req.templateId = 0)

\* Lines 270-274: the messageType recorded on the row.
SendMessageType(req) ==
    IF req.templateId # 0 THEN "template"
    ELSE IF req.mediaUrl # Undefined THEN "image"
    ELSE "text"

\* Lines 167-168: the session the handler starts from, given the conversation
\* it read: the bound session whatever its status, or none.
PreferredSession(conversation) == conversation.sessionId

\* Faulty variant of FirstAvailableSession: the filter forgets the status.
FirstSessionOfAccount(accountId) ==
    FindFirst({s \in Ids(sessions) :
                  sessions[s].accountId = accountId /\ sessions[s].isActive})

\* Lines 169-175: whatsappSession.findFirst({accountId, status: 'connected',
\* isActive: true}).
FirstAvailableSession(accountId) ==
    FindFirst({s \in Ids(sessions) :
                  /\ sessions[s].accountId = accountId
                  /\ sessions[s].status = "connected"
                  /\ sessions[s].isActive})

\* The session snapshot the handler holds once a session is resolved.
SessionSnapshot(sid) ==
    [id |-> sid, providerSessionId |-> sessions[sid].providerSessionId,
     phoneNumber |-> sessions[sid].phoneNumber, status |-> sessions[sid].status]
NoSession == [id |-> 0, providerSessionId |-> "", phoneNumber |-> "", status |-> ""]

NoOutcome == [ok |-> FALSE, messageId |-> "", code |-> "", message |-> ""]

\* Lines 128-176: license, body (a body that is not JSON makes request.json()
\* throw at line 131 and the catch of lines 321-339 answers 500), schema,
\* payload check, conversation lookup (with account, contact and session),
\* ownership, preferred session.
SendFindConversation(p, req) ==
    /\ Begin(p, MaxSendRequests)
    /\ IF ~req.licensed THEN
           Reject(p, "send", req, Response(403, "Module not licensed"))
       ELSE IF ~req.json THEN
           Reject(p, "send", req, Response(500, "Failed to send message"))
       ELSE IF ~SendSchemaOk(req) THEN
           Reject(p, "send", req, Response(400, "Validation error"))
       ELSE IF ~SendPayloadOk(req) THEN
           Reject(p, "send", req, Response(400, "text, mediaUrl, or templateId required"))
       ELSE IF req.conversationId \notin Ids(conversations) THEN
           Reject(p, "send", req, Response(404, "Conversation not found"))
       ELSE LET conversation == conversations[req.conversationId]
                account == accounts[conversation.accountId]
                sid == PreferredSession(conversation)
                loc == [accountId |-> conversation.accountId,
                        contactId |-> conversation.contactId,
                        configured |-> account.wahaBaseUrl /\ account.wahaApiKey,
                        session |-> IF sid = 0 THEN NoSession ELSE SessionSnapshot(sid),
                        toNumber |-> "", body |-> "", called |-> FALSE,
                        outcome |-> NoOutcome,
                        whatsappMessageId |-> "", status |-> "sent",
                        errorCode |-> "", errorMessage |-> "", messageId |-> 0,
                        issuedAt |-> 0]
            IN  IF ~OwnedBy(conversation.accountId, req.tenantId) THEN
                    Reject(p, "send", req, Response(403, "Unauthorized"))
                ELSE IF sid = 0 THEN Start(p, "send", "findSession", req, loc)
                ELSE Start(p, "send", "findIdentity", req, loc)
    /\ UNCHANGED <<tables, providerCalls, now>>

\* Lines 168-183: no preferred session: first available one, or 400.
SendFindSession(p) ==
    /\ procs[p].op = "send" /\ procs[p].pc = "findSession"
    /\ LET sid == FirstAvailableSession(procs[p].loc.accountId) IN
       IF sid = 0 THEN Finish(p, Response(400, "No active WhatsApp session"))
       ELSE Goto(p, "findIdentity", [procs[p].loc EXCEPT !.session = SessionSnapshot(sid)])
    /\ UNCHANGED <<tables, providerCalls, now, started>>

\* Faulty variant of SendFindIdentity: a contact without an identity row is
\* written to at the phone number of its contact record.
SendFindIdentityLenient(p) ==
    /\ procs[p].op = "send" /\ procs[p].pc = "findIdentity"
    /\ LET req == procs[p].req
           loc == procs[p].loc
           iid == FindFirst({i \in Ids(identities) :
                                 identities[i].contactId = loc.contactId})
           number == IF iid = 0 THEN contacts[loc.contactId].phone
                     ELSE identities[iid].whatsappNumber
       IN  IF loc.session.phoneNumber = "" THEN
               Finish(p, Response(400, "Session phone number not available"))
           ELSE IF ~loc.configured THEN
               Finish(p, Response(400, "WAHA configuration incomplete"))
           ELSE IF req.text # "" THEN
               Goto(p, "callProvider",
                    [loc EXCEPT !.toNumber = number,
                                !.body = req.text])
           ELSE IF req.mediaUrl # Undefined THEN
               Goto(p, "callProvider",
                    [loc EXCEPT !.toNumber = number,
                                !.body = req.mediaUrl])
           ELSE
               Goto(p, "findTemplate",
                    [loc EXCEPT !.toNumber = number])
    /\ UNCHANGED <<tables, providerCalls, now, started>>

\* Lines 185-243 up to the template lookup: the contact's number, the
\* session's number, the provider configuration, the payload body.
SendFindIdentity(p) ==
    /\ procs[p].op = "send" /\ procs[p].pc = "findIdentity"
    /\ LET req == procs[p].req
           loc == procs[p].loc
           iid == FindFirst({i \in Ids(identities) :
                                 identities[i].contactId = loc.contactId})
       IN  IF iid = 0 THEN
               Finish(p, Response(400, "Contact has no WhatsApp number"))
           ELSE IF loc.session.phoneNumber = "" THEN
               Finish(p, Response(400, "Session phone number not available"))
           ELSE IF ~loc.configured THEN
               Finish(p, Response(400, "WAHA configuration incomplete"))
           ELSE IF req.text # "" THEN
               Goto(p, "callProvider",
                    [loc EXCEPT !.toNumber = identities[iid].whatsappNumber,
                                !.body = req.text])
           ELSE IF req.mediaUrl # Undefined THEN
               Goto(p, "callProvider",
                    [loc EXCEPT !.toNumber = identities[iid].whatsappNumber,
                                !.body = req.mediaUrl])
           ELSE
               Goto(p, "findTemplate",
                    [loc EXCEPT !.toNumber = identities[iid].whatsappNumber])
    /\ UNCHANGED <<tables, providerCalls, now, started>>

\* Lines 232-243: whatsappTemplate.findUnique({id: templateId}).
SendFindTemplate(p) ==
    /\ procs[p].op = "send" /\ procs[p].pc = "findTemplate"
    /\ IF procs[p].req.templateId \notin Ids(templates) THEN
           Finish(p, Response(404, "Template not found"))
       ELSE
           Goto(p, "callProvider",
                [procs[p].loc EXCEPT !.body = templates[procs[p].req.templateId].bodyTemplate])
    /\ UNCHANGED <<tables, providerCalls, now, started>>

\* What the provider can answer to a send: accepted with a message id (or
\* without one), refused with an HTTP status, or no answer within the timeout.
SendOutcomes ==
    {[ok |-> TRUE, messageId |-> "wamid-1", code |-> "", message |-> ""],
     [ok |-> TRUE, messageId |-> "", code |-> "", message |-> ""],
     [ok |-> FALSE, messageId |-> "", code |-> "500", message |-> "bridge error"],
     [ok |-> FALSE, messageId |-> "", code |-> "UNKNOWN",
      message |-> "timeout of 10000ms exceeded"]}

\* Faulty variant of SendCallProvider: a provider failure is not caught; it reaches
\* the handler's outer catch, which answers 500.
SendCallProviderThrows(p, outcome) ==
    /\ procs[p].op = "send" /\ procs[p].pc = "callProvider"
    /\ providerCalls' = providerCalls \cup {
           [kind |-> "send", instance |-> procs[p].loc.session.providerSessionId,
            to |-> procs[p].loc.toNumber, body |-> procs[p].loc.body]}
    /\ IF outcome.ok THEN
           Goto(p, "createMessage",
                [procs[p].loc EXCEPT !.called = TRUE, !.outcome = outcome,
                                     !.whatsappMessageId = outcome.messageId,
                                     !.issuedAt = now])
       ELSE
           procs' = [procs EXCEPT ![p].pc = "done",
                                  ![p].res = Response(500, "Failed to send message"),
                                  ![p].loc = [procs[p].loc EXCEPT !.called = TRUE,
                                                                  !.outcome = outcome]]
    /\ UNCHANGED <<tables, now, started>>

\* Lines 245-261: axios.post to the instance of the resolved session; the
\* outcome is captured, never thrown. When it returns the handler issues the
\* message create, whose `new Date()` (line 284) is the clock of this step
\* (issuedAt).
SendCallProvider(p, outcome) ==
    /\ procs[p].op = "send" /\ procs[p].pc = "callProvider"
    /\ providerCalls' = providerCalls \cup {
           [kind |-> "send", instance |-> procs[p].loc.session.providerSessionId,
            to |-> procs[p].loc.toNumber, body |-> procs[p].loc.body]}
    /\ Goto(p, "createMessage",
            [procs[p].loc EXCEPT !.called = TRUE, !.outcome = outcome,
                                 !.whatsappMessageId = outcome.messageId,
                                 !.status = IF outcome.ok THEN "sent" ELSE "failed",
                                 !.errorCode = outcome.code,
                                 !.errorMessage = outcome.message,
                                 !.issuedAt = now])
    /\ UNCHANGED <<tables, now, started>>

\* Lines 263-286: whatsappMessage.create for the outbound message: sentAt is
\* the date taken when the create was issued, createdAt the store's default
\* when it executes. When it returns the handler issues the conversation
\* update, whose `new Date()` (line 292) is the clock of this step.
SendCreateMessage(p) ==
    /\ procs[p].op = "send" /\ procs[p].pc = "createMessage"
    /\ LET req == procs[p].req
           loc == procs[p].loc
       IN  /\ messages' = Append(messages,
                  [conversationId |-> req.conversationId,
                   sessionId |-> loc.session.id,
                   direction |-> "out",
                   messageType |-> SendMessageType(req),
                   whatsappMessageId |-> loc.whatsappMessageId,
                   fromNumber |-> loc.session.phoneNumber,
                   toNumber |-> loc.toNumber,
                   text |-> req.text,
                   mediaUrl |-> IF req.mediaUrl = Undefined THEN "" ELSE req.mediaUrl,
                   templateId |-> req.templateId,
                   status |-> loc.status,
                   errorCode |-> loc.errorCode, errorMessage |-> loc.errorMessage,
                   sentAt |-> loc.issuedAt, deliveredAt |-> 0, readAt |-> 0,
                   createdAt |-> now])
           /\ Goto(p, "updateConversation",
                   [loc EXCEPT !.messageId = Len(messages) + 1, !.issuedAt = now])
    /\ UNCHANGED <<accounts, sessions, contacts, identities, conversations, templates,
                   auditLog, providerCalls, now, started>>

\* Faulty variant of SendUpdateConversation: answering a conversation marks it read.
SendUpdateConversationMarksRead(p) ==
    /\ procs[p].op = "send" /\ procs[p].pc = "updateConversation"
    /\ conversations' = UpdateRow(conversations, procs[p].req.conversationId,
           [lastMessageAt |-> procs[p].loc.issuedAt, lastDirection |-> "out",
            unreadCount |-> 0])
    /\ Goto(p, "updateSession", [procs[p].loc EXCEPT !.issuedAt = now])
    /\ UNCHANGED <<accounts, sessions, contacts, identities, messages, templates,
                   auditLog, providerCalls, now, started>>

\* Lines 288-295: whatsappConversation.update, with the date taken when it
\* was issued. When it returns the handler issues the session update, whose
\* `new Date()` (line 302) is the clock of this step.
SendUpdateConversation(p) ==
    /\ procs[p].op = "send" /\ procs[p].pc = "updateConversation"
    /\ conversations' = UpdateRow(conversations, procs[p].req.conversationId,
           [lastMessageAt |-> procs[p].loc.issuedAt, lastDirection |-> "out"])
    /\ Goto(p, "updateSession", [procs[p].loc EXCEPT !.issuedAt = now])
    /\ UNCHANGED <<accounts, sessions, contacts, identities, messages, templates,
                   auditLog, providerCalls, now, started>>

\* Lines 297-304: whatsappSession.update, dailySentCount incremented in the
\* store, lastSeenAt the date taken when the update was issued.
SendUpdateSession(p) ==
    /\ procs[p].op = "send" /\ procs[p].pc = "updateSession"
    /\ LET sid == procs[p].loc.session.id IN
       sessions' = UpdateRow(sessions, sid,
           [dailySentCount |-> sessions[sid].dailySentCount + 1,
            lastSeenAt |-> procs[p].loc.issuedAt])
    /\ Goto(p, "audit", procs[p].loc)
    /\ UNCHANGED <<accounts, contacts, identities, conversations, messages, templates,
                   auditLog, providerCalls, now, started>>

\* Lines 306-320: whatsappAuditLog.create, then 201 with the message row.
SendAudit(p) ==
    /\ procs[p].op = "send" /\ procs[p].pc = "audit"
    /\ auditLog' = Append(auditLog,
           [accountId |-> procs[p].loc.accountId, sessionId |-> procs[p].loc.session.id,
            action |-> "message_send",
            status |-> IF procs[p].loc.status = "failed" THEN "failure" ELSE "success"])
    /\ Finish(p, ResponseRow(201, procs[p].loc.messageId))
    /\ UNCHANGED <<accounts, sessions, contacts, identities, conversations, messages,
                   templates, providerCalls, now, started>>

\* Lines 142-150 and 321-339: the conversation lookup throws; the outer catch
\* answers 500.
SendFindConversationFails(p, req) ==
    /\ Begin(p, MaxSendRequests)
    /\ req.licensed /\ SendSchemaOk(req) /\ SendPayloadOk(req)
    /\ Reject(p, "send", req, Response(500, "Failed to send message"))
    /\ UNCHANGED <<tables, providerCalls, now>>

\* The messages of the errors a failing store call raises.
StoreErrors == {"store error"}

\* Lines 232-234 and 256-261: the template lookup is inside the inner try, so
\* when it throws the inner catch records the send as failed (no HTTP status
\* on the error: code UNKNOWN, message of the error) and the handler goes on
\* to store the Message; the provider is not called.
SendFindTemplateFails(p, message) ==
    /\ procs[p].op = "send" /\ procs[p].pc = "findTemplate"
    /\ Goto(p, "createMessage",
            [procs[p].loc EXCEPT !.status = "failed", !.errorCode = "UNKNOWN",
                                 !.errorMessage = message, !.issuedAt = now])
    /\ UNCHANGED <<tables, providerCalls, now, started>>

\* Lines 169-190, 264-318 and 321-339: a store call outside the inner try,
\* read or write, that throws, for instance on a lost connection, takes the
\* handler to its outer catch, which answers 500; the writes made before it
\* stay.
SendStoreFails(p) ==
    /\ procs[p].op = "send"
    /\ procs[p].pc \in {"findSession", "findIdentity",
                        "createMessage", "updateConversation", "updateSession", "audit"}
    /\ Finish(p, Response(500, "Failed to send message"))
    /\ UNCHANGED <<tables, providerCalls, now, started>>

\* ------------------------------------------------------------------ session status poll
\* GET /api/whatsapp/sessions/status/[sessionId]
PollRequests ==
    [tenantId : {"t1"}, licensed : {TRUE}, sessionId : {1, 2}]
    \cup {[tenantId |-> "t2", licensed |-> TRUE, sessionId |-> 1],
          [tenantId |-> "t1", licensed |-> FALSE, sessionId |-> 1],
          [tenantId |-> "t1", licensed |-> TRUE, sessionId |-> 9]}

\* What the provider can answer to a status query: no answer, or a state word
\* (possibly none) and the connected number (possibly none).
PollOutcomes ==
    {[ok |-> FALSE, state |-> "", phone |-> ""]} \cup
    [ok : {TRUE},
     state : {"CONNECTED", "connected", "Connected", "DISCONNECTED", "disconnected",
              "STARTING", ""},
     phone : {"", "+100"}]

\* Line 109: `data.state || data.status || 'DISCONNECTED'`.
WahaState(state) == IF state # "" THEN state ELSE "DISCONNECTED"

\* Lines 109-111: the status and number the handler derives from the answer.
PollNewStatus(state) ==
    LET wahaState == WahaState(state) IN
    IF wahaState = "CONNECTED" \/ wahaState = "connected" THEN "connected" ELSE "pending_qr"
PollPhone(phone, cached) == IF phone # "" THEN phone ELSE cached

\* Lines 73-99: license, session lookup (with account), ownership, and
\* whether the provider is asked at all.
PollFind(p, req) ==
    /\ Begin(p, MaxSendRequests)
    /\ IF ~req.licensed THEN
           Reject(p, "poll", req, Response(403, "Module not licensed"))
       ELSE IF req.sessionId \notin Ids(sessions) THEN
           Reject(p, "poll", req, Response(404, "Session not found"))
       ELSE LET session == sessions[req.sessionId]
                account == accounts[session.accountId]
                loc == [status |-> session.status, phoneNumber |-> session.phoneNumber,
                        lastSeenAt |-> session.lastSeenAt, lastSyncAt |-> session.lastSyncAt,
                        asked |-> FALSE, reached |-> FALSE, wahaState |-> "",
                        newStatus |-> session.status, newPhone |-> session.phoneNumber,
                        syncAt |-> 0]
            IN  IF ~OwnedBy(session.accountId, req.tenantId) THEN
                    Reject(p, "poll", req, Response(403, "Unauthorized"))
                ELSE IF account.wahaBaseUrl /\ account.wahaApiKey
                        /\ session.providerSessionId # "" THEN
                    Start(p, "poll", "callProvider", req, loc)
                ELSE
                    procs' = [procs EXCEPT ![p] =
                        [op |-> "poll", pc |-> "done", req |-> req, loc |-> loc,
                         res |-> Response(200, "")]]
    /\ UNCHANGED <<tables, providerCalls, now>>

\* Faulty variant of PollCallProvider: an unreachable provider fails the call.
PollCallProviderFails(p, outcome) ==
    /\ procs[p].op = "poll" /\ procs[p].pc = "callProvider"
    /\ providerCalls' = providerCalls \cup {
           [kind |-> "status", instance |-> sessions[procs[p].req.sessionId].providerSessionId,
            to |-> "", body |-> ""]}
    /\ LET loc == procs[p].loc
           newStatus == PollNewStatus(outcome.state)
           newPhone == PollPhone(outcome.phone, loc.phoneNumber)
           answered == [loc EXCEPT !.asked = TRUE, !.reached = TRUE,
                                   !.wahaState = WahaState(outcome.state),
                                   !.newStatus = newStatus, !.newPhone = newPhone,
                                   !.syncAt = now]
       IN  IF ~outcome.ok THEN
               procs' = [procs EXCEPT ![p].pc = "done",
                                      ![p].res = Response(500, "Failed to check status"),
                                      ![p].loc = [loc EXCEPT !.asked = TRUE]]
           ELSE Goto(p, "update", answered)
    /\ UNCHANGED <<tables, now, started>>

\* Lines 100-114, 125-136: the provider's answer; unreachable answers with
\* the cached values. The update of lines 115-123 is issued in the same
\* stretch of code as the answer is read, so its two `new Date()` are the
\* clock of this step (syncAt).
PollCallProvider(p, outcome) ==
    /\ procs[p].op = "poll" /\ procs[p].pc = "callProvider"
    /\ providerCalls' = providerCalls \cup {
           [kind |-> "status", instance |-> sessions[procs[p].req.sessionId].providerSessionId,
            to |-> "", body |-> ""]}
    /\ LET loc == procs[p].loc
           newStatus == PollNewStatus(outcome.state)
           newPhone == PollPhone(outcome.phone, loc.phoneNumber)
           answered == [loc EXCEPT !.asked = TRUE, !.reached = TRUE,
                                   !.wahaState = WahaState(outcome.state),
                                   !.newStatus = newStatus, !.newPhone = newPhone,
                                   !.syncAt = now]
       IN  IF ~outcome.ok THEN
               procs' = [procs EXCEPT ![p].pc = "done", ![p].res = Response(200, ""),
                                      ![p].loc = [loc EXCEPT !.asked = TRUE]]
           ELSE IF newStatus # loc.status \/ newPhone # loc.phoneNumber THEN
               Goto(p, "update", answered)
           ELSE
               procs' = [procs EXCEPT ![p].pc = "done", ![p].res = Response(200, ""),
                                      ![p].loc = answered]
    /\ UNCHANGED <<tables, now, started>>

\* Lines 115-123, 131-136: whatsappSession.update with the dates taken when
\* it was issued, then the response.
PollUpdate(p) ==
    /\ procs[p].op = "poll" /\ procs[p].pc = "update"
    /\ LET loc == procs[p].loc IN
       sessions' = UpdateRow(sessions, procs[p].req.sessionId,
           [status |-> loc.newStatus, phoneNumber |-> loc.newPhone,
            lastSyncAt |-> loc.syncAt,
            lastSeenAt |-> IF loc.newStatus = "connected" THEN loc.syncAt
                           ELSE loc.lastSeenAt])
    /\ Finish(p, Response(200, ""))
    /\ UNCHANGED <<accounts, contacts, identities, conversations, messages, templates,
                   auditLog, providerCalls, now, started>>

\* ------------------------------------------------------------------ create session
\* POST /api/whatsapp/sessions
\* By the owner for the shared line and for an employee; and one request of
\* each kind the handler turns away (0 stands for a missing accountId).
CreateSessionRequests ==
    [tenantId : {"t1"}, licensed : {TRUE}, json : {TRUE}, accountId : {1},
     employeeId : {"", "e1"}]
    \cup {[tenantId |-> "t2", licensed |-> TRUE, json |-> TRUE, accountId |-> 1,
           employeeId |-> ""],
          [tenantId |-> "t2", licensed |-> TRUE, json |-> TRUE, accountId |-> 2,
           employeeId |-> ""],
          [tenantId |-> "t1", licensed |-> FALSE, json |-> TRUE, accountId |-> 1,
           employeeId |-> ""],
          [tenantId |-> "t1", licensed |-> TRUE, json |-> TRUE, accountId |-> 0,
           employeeId |-> ""],
          [tenantId |-> "t1", licensed |-> TRUE, json |-> TRUE, accountId |-> 9,
           employeeId |-> ""],
          [tenantId |-> "t1", licensed |-> TRUE, json |-> FALSE, accountId |-> 0,
           employeeId |-> ""]}

\* Line 42: `${tenantId}-${employeeId || 'shared'}-${Date.now()}`, on the
\* callers and clock values the model has.
SessionName(tenantId, employeeId, time) ==
    CASE tenantId = "t1" /\ employeeId = "" /\ time = 1 -> "t1-shared-1"
      [] tenantId = "t1" /\ employeeId = "" /\ time = 2 -> "t1-shared-2"
      [] tenantId = "t1" /\ employeeId = "" -> "t1-shared-3"
      [] tenantId = "t1" /\ time = 1 -> "t1-e1-1"
      [] tenantId = "t1" /\ time = 2 -> "t1-e1-2"
      [] tenantId = "t1" -> "t1-e1-3"
      [] employeeId = "" -> "t2-shared-1"
      [] OTHER -> "t2-e1-1"

\* What the provider can answer to the instance creation and to the QR
\* request: success (a QR, or none in the answer), a refusal with a message,
\* or no answer within the timeout.
ProvisionOutcomes ==
    {[ok |-> TRUE, qr |-> "qr-2", message |-> ""],
     [ok |-> TRUE, qr |-> "", message |-> ""],
     [ok |-> FALSE, qr |-> "", message |-> "bridge error"],
     [ok |-> FALSE, qr |-> "", message |-> "timeout of 10000ms exceeded"]}

\* Lines 67-69: `Failed to create WAHA session: ${errorMessage}`.
CreateSessionError(message) ==
    CASE message = "bridge error" -> "Failed to create WAHA session: bridge error"
      [] message = "timeout of 10000ms exceeded"
             -> "Failed to create WAHA session: timeout of 10000ms exceeded"
      [] OTHER -> "Failed to create WAHA session: Failed to create WAHA session"

\* Lines 75-84: the session row sessions/route.ts creates (status pending_qr,
\* no number yet; the other columns at their defaults).
NewSession(accountId, providerSessionId) ==
    [accountId |-> accountId, providerSessionId |-> providerSessionId,
     qrCodeUrl |-> "qr-1",
     status |-> "pending_qr", isActive |-> TRUE, phoneNumber |-> "",
     dailySentCount |-> 0, dailyRecvCount |-> 0, lastSyncAt |-> 0, lastSeenAt |-> 0]

\* Faulty variant of Configured: only the base URL is required.
ConfiguredByUrl(account) == account.wahaBaseUrl

\* Line 34: `!account.wahaBaseUrl || !account.wahaApiKey` is the
\* configuration error; the flags say whether the column is set.
Configured(account) == account.wahaBaseUrl /\ account.wahaApiKey

\* Lines 17-42: license, body (a body that is not JSON makes request.json()
\* throw at line 19 and the catch of lines 100-118 answers 500), schema,
\* account lookup, ownership, configuration, session name.
CreateSessionFind(p, req) ==
    /\ Begin(p, MaxSendRequests)
    /\ IF ~req.licensed THEN
           Reject(p, "createSession", req, Response(403, "Module not licensed"))
       ELSE IF ~req.json THEN
           Reject(p, "createSession", req, Response(500, "Failed to create session"))
       ELSE IF req.accountId = 0 THEN
           Reject(p, "createSession", req, Response(400, "Validation error"))
       ELSE IF req.accountId \notin Ids(accounts)
               \/ ~OwnedBy(req.accountId, req.tenantId) THEN
           Reject(p, "createSession", req, Response(403, "Unauthorized"))
       ELSE IF ~Configured(accounts[req.accountId]) THEN
           Reject(p, "createSession", req, Response(400, "WAHA configuration incomplete"))
       ELSE
           Start(p, "createSession", "createInstance", req,
                 [sessionName |-> SessionName(req.tenantId, req.employeeId, now),
                  qrCodeUrl |-> "", message |-> "", sessionId |-> 0])
    /\ UNCHANGED <<tables, providerCalls, now>>

\* Lines 45-53, 65-72: axios.post /api/instances; a failure answers 500 with
\* the upstream message.
CreateSessionCallCreate(p, outcome) ==
    /\ procs[p].op = "createSession" /\ procs[p].pc = "createInstance"
    /\ providerCalls' = providerCalls \cup {
           [kind |-> "createInstance", instance |-> procs[p].loc.sessionName,
            to |-> "", body |-> ""]}
    /\ IF outcome.ok THEN Goto(p, "getQr", procs[p].loc)
       ELSE procs' = [procs EXCEPT ![p].pc = "done",
                                   ![p].loc = [procs[p].loc EXCEPT !.message = outcome.message],
                                   ![p].res = Response(500, CreateSessionError(outcome.message))]
    /\ UNCHANGED <<tables, now, started>>

\* Faulty variant of CreateSessionCallQr: a failed QR request is swallowed and
\* the session is stored without a QR code.
CreateSessionCallQrLenient(p, outcome) ==
    /\ procs[p].op = "createSession" /\ procs[p].pc = "getQr"
    /\ providerCalls' = providerCalls \cup {
           [kind |-> "getQr", instance |-> procs[p].loc.sessionName,
            to |-> "", body |-> ""]}
    /\ Goto(p, "createSession",
            [procs[p].loc EXCEPT !.qrCodeUrl = outcome.qr, !.message = outcome.message])
    /\ UNCHANGED <<tables, now, started>>

\* Lines 55-72: axios.get /api/instances/{name}/qr; a failure answers 500 with
\* the upstream message.
CreateSessionCallQr(p, outcome) ==
    /\ procs[p].op = "createSession" /\ procs[p].pc = "getQr"
    /\ providerCalls' = providerCalls \cup {
           [kind |-> "getQr", instance |-> procs[p].loc.sessionName,
            to |-> "", body |-> ""]}
    /\ IF outcome.ok THEN
           Goto(p, "createSession", [procs[p].loc EXCEPT !.qrCodeUrl = outcome.qr])
       ELSE procs' = [procs EXCEPT ![p].pc = "done",
                                   ![p].loc = [procs[p].loc EXCEPT !.message = outcome.message],
                                   ![p].res = Response(500, CreateSessionError(outcome.message))]
    /\ UNCHANGED <<tables, now, started>>

\* Lines 74-84: whatsappSession.create.
CreateSessionCreate(p) ==
    /\ procs[p].op = "createSession" /\ procs[p].pc = "createSession"
    /\ sessions' = Append(sessions,
           [NewSession(procs[p].req.accountId, procs[p].loc.sessionName)
               EXCEPT !.qrCodeUrl = procs[p].loc.qrCodeUrl])
    /\ Goto(p, "audit", [procs[p].loc EXCEPT !.sessionId = Len(sessions) + 1])
    /\ UNCHANGED <<accounts, contacts, identities, conversations, messages, templates,
                   auditLog, providerCalls, now, started>>

\* Lines 86-99: whatsappAuditLog.create, then 201 with the session row.
CreateSessionAudit(p) ==
    /\ procs[p].op = "createSession" /\ procs[p].pc = "audit"
    /\ auditLog' = Append(auditLog,
           [accountId |-> procs[p].req.accountId, sessionId |-> procs[p].loc.sessionId,
            action |-> "session_create", status |-> "success"])
    /\ Finish(p, ResponseRow(201, procs[p].loc.sessionId))
    /\ UNCHANGED <<accounts, sessions, contacts, identities, conversations, messages,
                   templates, providerCalls, now, started>>

\* ------------------------------------------------------------------ reads by account id
\* GET /api/whatsapp/sessions/[accountId], GET /api/whatsapp/templates and
\* GET /api/whatsapp/analytics.  By the owner, for an account of another
\* tenant, for an unknown account, without a license and (query parameter
\* only) with no accountId (0).
AccountReadRequests ==
    {[tenantId |-> "t1", licensed |-> TRUE, accountId |-> 1],
     [tenantId |-> "t1", licensed |-> TRUE, accountId |-> 3],
     [tenantId |-> "t1", licensed |-> TRUE, accountId |-> 9],
     [tenantId |-> "t1", licensed |-> FALSE, accountId |-> 1],
     [tenantId |-> "t1", licensed |-> TRUE, accountId |-> 0]}

\* Faulty variant of ListSessions: an unknown account is answered 404.
ListSessionsNotFound(p, req) ==
    /\ Begin(p, MaxSendRequests)
    /\ req.accountId # 0
    /\ IF ~req.licensed THEN
           Reject(p, "listSessions", req, Response(403, "Module not licensed"))
       ELSE IF req.accountId \notin Ids(accounts) THEN
           Reject(p, "listSessions", req, Response(404, "Account not found"))
       ELSE IF ~OwnedBy(req.accountId, req.tenantId) THEN
           Reject(p, "listSessions", req, Response(403, "Unauthorized"))
       ELSE
           Start(p, "listSessions", "findMany", req, NoLoc)
    /\ UNCHANGED <<tables, providerCalls, now>>

\* part_001 lines 12-24: license, account lookup, ownership; the accountId
\* is a path segment and always present.
ListSessions(p, req) ==
    /\ Begin(p, MaxSendRequests)
    /\ req.accountId # 0
    /\ IF ~req.licensed THEN
           Reject(p, "listSessions", req, Response(403, "Module not licensed"))
       ELSE IF req.accountId \notin Ids(accounts)
               \/ ~OwnedBy(req.accountId, req.tenantId) THEN
           Reject(p, "listSessions", req, Response(403, "Unauthorized"))
       ELSE
           Start(p, "listSessions", "findMany", req, NoLoc)
    /\ UNCHANGED <<tables, providerCalls, now>>

\* part_001 lines 26-46: whatsappSession.findMany; the response is summarised
\* by the number of sessions listed.
ListSessionsFindMany(p) ==
    /\ procs[p].op = "listSessions" /\ procs[p].pc = "findMany"
    /\ Finish(p, ResponseRow(200, Cardinality({s \in Ids(sessions) :
                                  sessions[s].accountId = procs[p].req.accountId})))
    /\ UNCHANGED <<tables, providerCalls, now, started>>

\* part_002 lines 22-48: license, accountId required, account lookup,
\* ownership.
ListTemplates(p, req) ==
    /\ Begin(p, MaxSendRequests)
    /\ IF ~req.licensed THEN
           Reject(p, "listTemplates", req, Response(403, "Module not licensed"))
       ELSE IF req.accountId = 0 THEN
           Reject(p, "listTemplates", req, Response(400, "accountId required"))
       ELSE IF req.accountId \notin Ids(accounts)
               \/ ~OwnedBy(req.accountId, req.tenantId) THEN
           Reject(p, "listTemplates", req, Response(403, "Unauthorized"))
       ELSE
           Start(p, "listTemplates", "findMany", req, NoLoc)
    /\ UNCHANGED <<tables, providerCalls, now>>

\* part_002 lines 50-72: whatsappTemplate.findMany; the response is summarised
\* by the number of templates listed.
ListTemplatesFindMany(p) ==
    /\ procs[p].op = "listTemplates" /\ procs[p].pc = "findMany"
    /\ Finish(p, ResponseRow(200, Cardinality({t \in Ids(templates) :
                                  templates[t].accountId = procs[p].req.accountId})))
    /\ UNCHANGED <<tables, providerCalls, now, started>>

\* analytics/route.ts lines 6-34: license, accountId required, account
\* lookup, ownership.
AnalyticsFind(p, req) ==
    /\ Begin(p, MaxSendRequests)
    /\ IF ~req.licensed THEN
           Reject(p, "analytics", req, Response(403, "Module not licensed"))
       ELSE IF req.accountId = 0 THEN
           Reject(p, "analytics", req, Response(400, "accountId required"))
       ELSE IF req.accountId \notin Ids(accounts)
               \/ ~OwnedBy(req.accountId, req.tenantId) THEN
           Reject(p, "analytics", req, Response(403, "Unauthorized"))
       ELSE
           Start(p, "analytics", "countTotal", req,
                 [totalMessages |-> 0, inMessages |-> 0, outMessages |-> 0,
                  failedMessages |-> 0, sent |-> <<>>, received |-> <<>>])
    /\ UNCHANGED <<tables, providerCalls, now>>

\* analytics/route.ts lines 40-42: the messages of the account's conversations.
AccountMessages(accountId) ==
    {m \in Ids(messages) : conversations[messages[m].conversationId].accountId = accountId}

\* analytics/route.ts line 46: whatsappMessage.count of all of them.
AnalyticsCountTotal(p) ==
    /\ procs[p].op = "analytics" /\ procs[p].pc = "countTotal"
    /\ Goto(p, "countIn",
            [procs[p].loc EXCEPT !.totalMessages =
                Cardinality(AccountMessages(procs[p].req.accountId))])
    /\ UNCHANGED <<tables, providerCalls, now, started>>

\* analytics/route.ts lines 47-49: count of the inbound ones.
AnalyticsCountIn(p) ==
    /\ procs[p].op = "analytics" /\ procs[p].pc = "countIn"
    /\ Goto(p, "countOut",
            [procs[p].loc EXCEPT !.inMessages =
                Cardinality({m \in AccountMessages(procs[p].req.accountId) :
                                messages[m].direction = "in"})])
    /\ UNCHANGED <<tables, providerCalls, now, started>>

\* analytics/route.ts lines 50-52: count of the outbound ones.
AnalyticsCountOut(p) ==
    /\ procs[p].op = "analytics" /\ procs[p].pc = "countOut"
    /\ Goto(p, "countFailed",
            [procs[p].loc EXCEPT !.outMessages =
                Cardinality({m \in AccountMessages(procs[p].req.accountId) :
                                messages[m].direction = "out"})])
    /\ UNCHANGED <<tables, providerCalls, now, started>>

\* analytics/route.ts lines 53-55: count of the failed ones.
AnalyticsCountFailed(p) ==
    /\ procs[p].op = "analytics" /\ procs[p].pc = "countFailed"
    /\ Goto(p, "findSessions",
            [procs[p].loc EXCEPT !.failedMessages =
                Cardinality({m \in AccountMessages(procs[p].req.accountId) :
                                messages[m].status = "failed"})])
    /\ UNCHANGED <<tables, providerCalls, now, started>>

\* The 200 of analytics/route.ts lines 95-109, summarised by the total.
AnalyticsResponse(loc) == ResponseRow(200, loc.totalMessages)

\* analytics/route.ts lines 58-79: whatsappSession.findMany of the account;
\* sent and received map each session found to its count, -1 while the
\* count is outstanding.  With no session Promise.all resolves at once.
AnalyticsFindSessions(p) ==
    /\ procs[p].op = "analytics" /\ procs[p].pc = "findSessions"
    /\ LET found == {s \in Ids(sessions) : sessions[s].accountId = procs[p].req.accountId}
           loc == [procs[p].loc EXCEPT !.sent = [s \in found |-> -1],
                                       !.received = [s \in found |-> -1]]
       IN  IF found = {} THEN
               procs' = [procs EXCEPT ![p].pc = "done", ![p].loc = loc,
                                      ![p].res = AnalyticsResponse(loc)]
           ELSE Goto(p, "sessionStats", loc)
    /\ UNCHANGED <<tables, providerCalls, now, started>>

\* analytics/route.ts lines 78-93: Promise.all over the sessions; for each
\* session the count of its outbound messages, then of its inbound ones; the
\* counts of different sessions complete in any order.  The response goes
\* out when the last count has come back.
AnalyticsSessionCount(p, s) ==
    /\ procs[p].op = "analytics" /\ procs[p].pc = "sessionStats"
    /\ s \in DOMAIN procs[p].loc.sent
    /\ procs[p].loc.received[s] = -1
    /\ LET of(direction) ==
               Cardinality({m \in AccountMessages(procs[p].req.accountId) :
                               /\ messages[m].sessionId = s
                               /\ messages[m].direction = direction})
           loc == IF procs[p].loc.sent[s] = -1
                    THEN [procs[p].loc EXCEPT !.sent[s] = of("out")]
                    ELSE [procs[p].loc EXCEPT !.received[s] = of("in")]
       IN  IF \A t \in DOMAIN loc.received : loc.received[t] # -1 THEN
               procs' = [procs EXCEPT ![p].pc = "done", ![p].loc = loc,
                                      ![p].res = AnalyticsResponse(loc)]
           ELSE Goto(p, "sessionStats", loc)
    /\ UNCHANGED <<tables, providerCalls, now, started>>

AnalyticsStep(p) ==
    \/ AnalyticsCountTotal(p)
    \/ AnalyticsCountIn(p)
    \/ AnalyticsCountOut(p)
    \/ AnalyticsCountFailed(p)
    \/ AnalyticsFindSessions(p)
    \/ \E s \in Ids(sessions) : AnalyticsSessionCount(p, s)

\* ------------------------------------------------------------------ get conversation
\* GET /api/whatsapp/conversations/[conversationId]
\* By the owner, by another tenant, for an unknown id and without a license.
GetRequests ==
    {[tenantId |-> "t1", licensed |-> TRUE, conversationId |-> 1],
     [tenantId |-> "t1", licensed |-> TRUE, conversationId |-> 2],
     [tenantId |-> "t2", licensed |-> TRUE, conversationId |-> 1],
     [tenantId |-> "t1", licensed |-> TRUE, conversationId |-> 9],
     [tenantId |-> "t1", licensed |-> FALSE, conversationId |-> 1]}

\* part_003 lines 36-42: the account is included with
\* select: {id, businessName, status}; these are the columns the object has.
GetAccountColumns == {"id", "businessName", "status"}

\* part_003 line 57: conversation.account.tenantId on the object the query
\* returned; a column that was not selected reads undefined ("").
GetAccountTenantId(accountId) ==
    IF "tenantId" \in GetAccountColumns THEN accounts[accountId].tenantId ELSE ""

\* part_003 lines 17-64: license, conversation lookup, ownership, response.
GetConversation(p, req) ==
    /\ Begin(p, MaxSendRequests)
    /\ IF ~req.licensed THEN
           Reject(p, "get", req, Response(403, "Module not licensed"))
       ELSE IF req.conversationId \notin Ids(conversations) THEN
           Reject(p, "get", req, Response(404, "Conversation not found"))
       ELSE IF GetAccountTenantId(conversations[req.conversationId].accountId)
                   # req.tenantId THEN
           Reject(p, "get", req, Response(403, "Unauthorized"))
       ELSE
           Reject(p, "get", req, ResponseRow(200, req.conversationId))
    /\ UNCHANGED <<tables, providerCalls, now>>

\* ------------------------------------------------------------------ update conversation
\* PATCH /api/whatsapp/conversations/[conversationId]
\* 0 and "" stand for an absent sessionId, ticketId and status.  By the
\* owner: rebind, close, archive, link a ticket; and one request of each kind
\* the handler turns away.
PatchRequests ==
    {[tenantId |-> "t1", licensed |-> TRUE, json |-> TRUE, conversationId |-> 1, sessionId |-> 2,
      status |-> "", ticketId |-> 0],
     [tenantId |-> "t1", licensed |-> TRUE, json |-> TRUE, conversationId |-> 2, sessionId |-> 1,
      status |-> "closed", ticketId |-> 0],
     [tenantId |-> "t1", licensed |-> TRUE, json |-> TRUE, conversationId |-> 1, sessionId |-> 0,
      status |-> "archived", ticketId |-> 0],
     [tenantId |-> "t1", licensed |-> TRUE, json |-> TRUE, conversationId |-> 1, sessionId |-> 9,
      status |-> "", ticketId |-> 0],
     [tenantId |-> "t1", licensed |-> TRUE, json |-> TRUE, conversationId |-> 1, sessionId |-> 3,
      status |-> "closed", ticketId |-> 0],
     [tenantId |-> "t1", licensed |-> TRUE, json |-> TRUE, conversationId |-> 1, sessionId |-> 0,
      status |-> "bogus", ticketId |-> 0],
     [tenantId |-> "t1", licensed |-> TRUE, json |-> TRUE, conversationId |-> 9, sessionId |-> 0,
      status |-> "closed", ticketId |-> 0],
     [tenantId |-> "t1", licensed |-> FALSE, json |-> TRUE, conversationId |-> 1, sessionId |-> 0,
      status |-> "closed", ticketId |-> 0],
     [tenantId |-> "t2", licensed |-> TRUE, json |-> TRUE, conversationId |-> 1, sessionId |-> 0,
      status |-> "closed", ticketId |-> 0],
     [tenantId |-> "t2", licensed |-> TRUE, json |-> TRUE, conversationId |-> 1, sessionId |-> 0,
      status |-> "bogus", ticketId |-> 0],
     [tenantId |-> "t1", licensed |-> TRUE, json |-> TRUE, conversationId |-> 1, sessionId |-> 0,
      status |-> "", ticketId |-> 5],
     [tenantId |-> "t1", licensed |-> TRUE, json |-> FALSE, conversationId |-> 1,
      sessionId |-> 0, status |-> "", ticketId |-> 0],
     [tenantId |-> "t2", licensed |-> TRUE, json |-> FALSE, conversationId |-> 1,
      sessionId |-> 0, status |-> "", ticketId |-> 0]}

\* part_003 lines 6-10, 88: updateConversationSchema.parse.
PatchSchemaOk(req) == req.status \in {"", "open", "closed", "archived"}

\* part_003 lines 85-111: license, body (a body that is not JSON makes
\* request.json() throw at line 87 and the catch of lines 138-155 answers
\* 500), schema, conversation lookup (with account), ownership.
PatchFind(p, req) ==
    /\ Begin(p, MaxSendRequests)
    /\ IF ~req.licensed THEN
           Reject(p, "patch", req, Response(403, "Module not licensed"))
       ELSE IF ~req.json THEN
           Reject(p, "patch", req, Response(500, "Failed to update conversation"))
       ELSE IF ~PatchSchemaOk(req) THEN
           Reject(p, "patch", req, Response(400, "Validation error"))
       ELSE IF req.conversationId \notin Ids(conversations) THEN
           Reject(p, "patch", req, Response(404, "Conversation not found"))
       ELSE IF ~OwnedBy(conversations[req.conversationId].accountId, req.tenantId) THEN
           Reject(p, "patch", req, Response(403, "Unauthorized"))
       ELSE IF req.sessionId # 0 THEN
           Start(p, "patch", "checkSession", req,
                 [accountId |-> conversations[req.conversationId].accountId])
       ELSE
           Start(p, "patch", "update", req,
                 [accountId |-> conversations[req.conversationId].accountId])
    /\ UNCHANGED <<tables, providerCalls, now>>

\* Faulty variant of PatchCheckSession: the conversation is updated before the
\* session is validated.
PatchCheckSessionLate(p) ==
    /\ procs[p].op = "patch" /\ procs[p].pc = "checkSession"
    /\ conversations' = UpdateRow(conversations, procs[p].req.conversationId,
           [sessionId |-> procs[p].req.sessionId])
    /\ IF procs[p].req.sessionId \notin Ids(sessions)
          \/ sessions[procs[p].req.sessionId].accountId # procs[p].loc.accountId THEN
           Finish(p, Response(400, "Invalid session"))
       ELSE Goto(p, "update", procs[p].loc)
    /\ UNCHANGED <<accounts, sessions, contacts, identities, messages, templates,
                   auditLog, providerCalls, now, started>>

\* Faulty variant of PatchCheckSession: the session only has to exist.
PatchCheckSessionExists(p) ==
    /\ procs[p].op = "patch" /\ procs[p].pc = "checkSession"
    /\ IF procs[p].req.sessionId \notin Ids(sessions) THEN
           Finish(p, Response(400, "Invalid session"))
       ELSE Goto(p, "update", procs[p].loc)
    /\ UNCHANGED <<tables, providerCalls, now, started>>

\* part_003 lines 111-121: whatsappSession.findUnique; the session must exist
\* and belong to the conversation's account.
PatchCheckSession(p) ==
    /\ procs[p].op = "patch" /\ procs[p].pc = "checkSession"
    /\ IF procs[p].req.sessionId \notin Ids(sessions)
          \/ sessions[procs[p].req.sessionId].accountId # procs[p].loc.accountId THEN
           Finish(p, Response(400, "Invalid session"))
       ELSE Goto(p, "update", procs[p].loc)
    /\ UNCHANGED <<tables, providerCalls, now, started>>

\* part_003 lines 123-137: whatsappConversation.update with the fields present
\* in the request; 200 with the row.
PatchUpdate(p) ==
    /\ procs[p].op = "patch" /\ procs[p].pc = "update"
    /\ LET req == procs[p].req
           c == conversations[req.conversationId]
       IN  conversations' = UpdateRow(conversations, req.conversationId,
               [sessionId |-> IF req.sessionId # 0 THEN req.sessionId ELSE c.sessionId,
                ticketId |-> IF req.ticketId # 0 THEN req.ticketId ELSE c.ticketId,
                status |-> IF req.status # "" THEN req.status ELSE c.status])
    /\ Finish(p, ResponseRow(200, procs[p].req.conversationId))
    /\ UNCHANGED <<accounts, sessions, contacts, identities, messages, templates,
                   auditLog, providerCalls, now, started>>

\* ------------------------------------------------------------------ onboarding status
\* GET /api/whatsapp/onboarding/[accountId]/status (part_004 lines 18-110).
\* By the owner of the platform-hosted account, by another tenant, for an
\* unknown account, without a license, and for a self-hosted account.
OnboardingRequests ==
    {[tenantId |-> "t2", licensed |-> TRUE, accountId |-> 4],
     [tenantId |-> "t1", licensed |-> TRUE, accountId |-> 4],
     [tenantId |-> "t2", licensed |-> TRUE, accountId |-> 9],
     [tenantId |-> "t2", licensed |-> FALSE, accountId |-> 4],
     [tenantId |-> "t2", licensed |-> TRUE, accountId |-> 3]}

\* What the bridge can answer about an instance: no answer, or a state word
\* (possibly none) and the connected number (possibly none).
OnboardingOutcomes ==
    {[ok |-> FALSE, state |-> "", phone |-> ""],
     [ok |-> TRUE, state |-> "CONNECTED", phone |-> "+400"],
     [ok |-> TRUE, state |-> "connected", phone |-> ""],
     [ok |-> TRUE, state |-> "DISCONNECTED", phone |-> ""],
     [ok |-> TRUE, state |-> "", phone |-> ""]}

\* part_004 lines 59-83: the status reported for a bridge state, given the
\* status read with the account.
OnboardingNewStatus(state, status) ==
    IF state = "CONNECTED" \/ state = "connected" THEN "active"
    ELSE IF state = "DISCONNECTED" \/ state = "disconnected" THEN "disconnected"
    ELSE status

\* part_004 lines 24-43: license, account lookup, ownership, hosted
\* configuration.
OnboardingFind(p, req) ==
    /\ Begin(p, MaxSendRequests)
    /\ IF ~req.licensed THEN
           Reject(p, "onboarding", req, Response(403, "Module not licensed"))
       ELSE IF req.accountId \notin Ids(accounts)
               \/ ~OwnedBy(req.accountId, req.tenantId) THEN
           Reject(p, "onboarding", req, Response(403, "Unauthorized"))
       ELSE LET account == accounts[req.accountId] IN
           IF ~account.internalWahaUrl \/ ~account.internalApiKey
              \/ account.paynaidInstanceId = "" THEN
               Reject(p, "onboarding", req,
                      Response(400, "Account not properly configured"))
           ELSE
               Start(p, "onboarding", "callProvider", req,
                     [status |-> account.status,
                      instance |-> account.paynaidInstanceId,
                      newStatus |-> account.status, phoneNumber |-> ""])
    /\ UNCHANGED <<tables, providerCalls, now>>

\* part_004 lines 46-62 and 81-98: axios.get of the instance; an unreachable
\* bridge answers with the stored status; a connected instance of an account
\* not yet active goes on to the account update; every other answer is
\* reported without a write.
OnboardingCallProvider(p, outcome) ==
    /\ procs[p].op = "onboarding" /\ procs[p].pc = "callProvider"
    /\ providerCalls' = providerCalls \cup {
           [kind |-> "status", instance |-> procs[p].loc.instance,
            to |-> "", body |-> ""]}
    /\ LET loc == procs[p].loc
           newStatus == OnboardingNewStatus(outcome.state, loc.status)
           answered == [loc EXCEPT !.newStatus = newStatus,
                                   !.phoneNumber = outcome.phone]
       IN  IF ~outcome.ok THEN
               procs' = [procs EXCEPT ![p].pc = "done", ![p].res = Response(200, "")]
           ELSE IF newStatus = "active" /\ loc.status # "active" THEN
               Goto(p, "updateAccount", answered)
           ELSE
               procs' = [procs EXCEPT ![p].pc = "done", ![p].res = Response(200, ""),
                                      ![p].loc = answered]
    /\ UNCHANGED <<tables, now, started>>

\* part_004 lines 63-69: whatsappAccount.update({status: 'active'}).
OnboardingUpdateAccount(p) ==
    /\ procs[p].op = "onboarding" /\ procs[p].pc = "updateAccount"
    /\ accounts' = UpdateRow(accounts, procs[p].req.accountId, [status |-> "active"])
    /\ Goto(p, "audit", procs[p].loc)
    /\ UNCHANGED <<sessions, contacts, identities, conversations, messages, templates,
                   auditLog, providerCalls, now, started>>

\* part_004 lines 71-89: whatsappAuditLog.create, then the response.
OnboardingAudit(p) ==
    /\ procs[p].op = "onboarding" /\ procs[p].pc = "audit"
    /\ auditLog' = Append(auditLog,
           [accountId |-> procs[p].req.accountId, sessionId |-> 0,
            action |-> "account_qr_scanned", status |-> "success"])
    /\ Finish(p, Response(200, ""))
    /\ UNCHANGED <<accounts, sessions, contacts, identities, conversations, messages,
                   templates, providerCalls, now, started>>

OnboardingStep(p) ==
    \/ \E outcome \in OnboardingOutcomes : OnboardingCallProvider(p, outcome)
    \/ OnboardingUpdateAccount(p)
    \/ OnboardingAudit(p)

\* ------------------------------------------------------------------ OAuth callback
\* GET /api/oauth/callback (src/app/api/oauth/callback/route.ts) and the cookie
\* helpers of @payaid/oauth-client. "" stands for an absent query parameter.
\* The state "%" is not a valid percent-encoding.
OAuthRequests ==
    [error : {"", "access_denied"}, error_description : {"", "User denied access"},
     code : {"", "code-1"}, state : {"", "%2Finbox", "%"}]

\* What the token endpoint can answer (oauth-client lines 67-96): not ok (the
\* exchange throws), an access token alone, or an access and a refresh token.
\* "" stands for an undefined refresh_token.
NoTokens == [access_token |-> "", refresh_token |-> ""]
TokenOutcomes ==
    {[ok |-> FALSE, access_token |-> "", refresh_token |-> ""],
     [ok |-> TRUE, access_token |-> "access-1", refresh_token |-> ""],
     [ok |-> TRUE, access_token |-> "access-1", refresh_token |-> "refresh-1"]}

\* NextResponse.redirect(url): a redirect response with no cookie set.
Redirect(location) == [status |-> 307, location |-> location, cookies |-> {}]

\* response.cookies.set(name, value, ...): the cookie of that name is replaced.
CookiesSet(response, name, value) ==
    [response EXCEPT !.cookies =
        {c \in @ : c.name # name} \cup {[name |-> name, value |-> value]}]

\* oauth-client lines 136-145.
setTokenCookie(response, token) == CookiesSet(response, "payaid_token", token)

\* oauth-client lines 150-159.
setRefreshTokenCookie(response, refreshToken) ==
    CookiesSet(response, "payaid_refresh_token", refreshToken)

\* decodeURIComponent on the states of OAuthRequests; "throws" for a malformed
\* escape (URIError).
DecodeURIComponent(state) ==
    CASE state = "%2Finbox" -> "/inbox"
      [] state = "%" -> "throws"
      [] OTHER -> state

\* encodeURIComponent on the error descriptions the handler can pass: a space
\* becomes %20, letters stay.
EncodeURIComponent(text) ==
    CASE text = "Authentication failed" -> "Authentication%20failed"
      [] text = "User denied access" -> "User%20denied%20access"
      [] OTHER -> text

\* callback/route.ts line 17: `error_description || 'Authentication failed'`.
ErrorDescription(req) ==
    IF req.error_description # "" THEN req.error_description ELSE "Authentication failed"

\* oauth-client lines 15-16: the core's origin and the client id, at the
\* defaults the code falls back to when the environment sets neither.
CORE_AUTH_URL == "https://payaid.io"
OAUTH_CLIENT_ID == ""

\* The origin the callback is served on (request.url); redirects to a path of
\* this origin are written by their path.
RequestOrigin == "http://localhost:3000"

\* callback/route.ts line 24: new URL('/api/oauth/callback', request.url).
CallbackUrl == RequestOrigin \o "/api/oauth/callback"

\* URLSearchParams serialisation of the values redirectToAuth sets: ':' and
\* '/' are percent-encoded, a space becomes '+'.
SearchParamEncode(value) ==
    CASE value = "http://localhost:3000/api/oauth/callback"
             -> "http%3A%2F%2Flocalhost%3A3000%2Fapi%2Foauth%2Fcallback"
      [] value = "openid profile email" -> "openid+profile+email"
      [] OTHER -> value

\* oauth-client lines 22-30: the redirect to the core's authorization
\* endpoint with client_id, redirect_uri, response_type and scope, in the
\* order they are set.
redirectToAuth(returnUrl) ==
    Redirect(CORE_AUTH_URL \o "/api/oauth/authorize?client_id="
             \o SearchParamEncode(OAUTH_CLIENT_ID)
             \o "&redirect_uri=" \o SearchParamEncode(returnUrl)
             \o "&response_type=code&scope=" \o SearchParamEncode("openid profile email"))

\* oauth-client lines 101-115, cookie branch: the token the browser sends
\* back after storing the cookies of a response ("" if none).
CookieToken(response) ==
    IF \E c \in response.cookies : c.name = "payaid_token"
      THEN (CHOOSE c \in response.cookies : c.name = "payaid_token").value
      ELSE ""

\* callback/route.ts lines 10-28: an error parameter redirects to the login
\* page with the encoded error description (lines 15-21), a missing code
\* redirects to the authorization endpoint (23-26); otherwise the code is
\* exchanged.
OAuthCallback(p, req) ==
    /\ Begin(p, MaxOAuthRequests)
    /\ IF req.error # "" THEN
           Reject(p, "oauth", req,
                  Redirect("/login?error=" \o EncodeURIComponent(ErrorDescription(req))))
       ELSE IF req.code = "" THEN
           Reject(p, "oauth", req, redirectToAuth(CallbackUrl))
       ELSE
           Start(p, "oauth", "exchange", req,
                 [tokens |-> NoTokens, response |-> Redirect("")])
    /\ UNCHANGED <<tables, providerCalls, now>>

\* callback/route.ts lines 31-53, after the await of exchangeCodeForTokens: a
\* failed exchange redirects to the login page; otherwise the cookies are set
\* on `response` (lines 40-44), and the handler returns a second redirect
\* built at line 47, or the redirect of the catch block when decoding the
\* state throws.
OAuthExchanged(p, outcome) ==
    /\ procs[p].op = "oauth" /\ procs[p].pc = "exchange"
    /\ IF ~outcome.ok THEN
           procs' = [procs EXCEPT ![p].pc = "done",
                        ![p].res = Redirect("/login?error=token_exchange_failed")]
       ELSE
           LET tokens == [access_token |-> outcome.access_token,
                          refresh_token |-> outcome.refresh_token]
               withToken == setTokenCookie(Redirect("/"), tokens.access_token)
               response == IF tokens.refresh_token # ""
                             THEN setRefreshTokenCookie(withToken, tokens.refresh_token)
                             ELSE withToken
               returnTo == IF procs[p].req.state # ""
                             THEN DecodeURIComponent(procs[p].req.state)
                             ELSE "/"
           IN procs' = [procs EXCEPT
                  ![p].pc = "done",
                  ![p].loc = [tokens |-> tokens, response |-> response],
                  ![p].res = IF returnTo = "throws"
                               THEN Redirect("/login?error=authentication_failed")
                               ELSE Redirect(returnTo)]
    /\ UNCHANGED <<tables, providerCalls, now, started>>

\* ------------------------------------------------------------------ create ticket
\* POST /api/whatsapp/conversations/[conversationId]/create-ticket
\* "" stands for an absent priority.
TicketRequests ==
    {[tenantId |-> "t1", licensed |-> TRUE, json |-> TRUE,
      conversationId |-> 1, priority |-> "high"],
     [tenantId |-> "t1", licensed |-> TRUE, json |-> TRUE,
      conversationId |-> 2, priority |-> ""],
     [tenantId |-> "t1", licensed |-> TRUE, json |-> TRUE,
      conversationId |-> 1, priority |-> "bogus"],
     [tenantId |-> "t1", licensed |-> TRUE, json |-> TRUE,
      conversationId |-> 9, priority |-> ""],
     [tenantId |-> "t1", licensed |-> FALSE, json |-> TRUE,
      conversationId |-> 1, priority |-> ""],
     [tenantId |-> "t2", licensed |-> TRUE, json |-> TRUE,
      conversationId |-> 1, priority |-> ""],
     [tenantId |-> "t1", licensed |-> TRUE, json |-> FALSE,
      conversationId |-> 1, priority |-> ""]}

\* part_003 lines 163-167, 179: createTicketSchema.parse.
TicketSchemaOk(req) == req.priority \in {"", "low", "medium", "high", "urgent"}

\* part_003 lines 207-227: (prisma as any).ticket.create answers with the id
\* of the new ticket, or throws (the Ticket model may not exist) and the
\* handler goes on without one (0).
TicketOutcomes == {0, 1}

\* part_003 lines 173-203: license, body (a body that is not JSON makes
\* request.json() throw at line 179 and the catch of lines 261-280 answers
\* 500), schema, conversation lookup (with account), ownership.
TicketFind(p, req) ==
    /\ Begin(p, MaxSendRequests)
    /\ IF ~req.licensed THEN
           Reject(p, "ticket", req, Response(403, "Module not licensed"))
       ELSE IF ~req.json THEN
           Reject(p, "ticket", req, Response(500, "Failed to create ticket"))
       ELSE IF ~TicketSchemaOk(req) THEN
           Reject(p, "ticket", req, Response(400, "Validation error"))
       ELSE IF req.conversationId \notin Ids(conversations) THEN
           Reject(p, "ticket", req, Response(404, "Conversation not found"))
       ELSE IF ~OwnedBy(conversations[req.conversationId].accountId, req.tenantId) THEN
           Reject(p, "ticket", req, Response(403, "Unauthorized"))
       ELSE
           Start(p, "ticket", "createTicket", req,
                 [accountId |-> conversations[req.conversationId].accountId,
                  ticketId |-> 0])
    /\ UNCHANGED <<tables, providerCalls, now>>

\* part_003 lines 207-230: the ticket create and its catch; with a ticket the
\* conversation is linked next, without one the audit entry is written next.
TicketCreate(p, outcome) ==
    /\ procs[p].op = "ticket" /\ procs[p].pc = "createTicket"
    /\ Goto(p, IF outcome # 0 THEN "link" ELSE "audit",
            [procs[p].loc EXCEPT !.ticketId = outcome])
    /\ UNCHANGED <<tables, providerCalls, now, started>>

\* part_003 lines 232-237: whatsappConversation.update({data: {ticketId}}).
TicketLink(p) ==
    /\ procs[p].op = "ticket" /\ procs[p].pc = "link"
    /\ conversations' = UpdateRow(conversations, procs[p].req.conversationId,
           [ticketId |-> procs[p].loc.ticketId])
    /\ Goto(p, "audit", procs[p].loc)
    /\ UNCHANGED <<accounts, sessions, contacts, identities, messages, templates,
                   auditLog, providerCalls, now, started>>

\* part_003 lines 239-260: whatsappAuditLog.create, then 201 with the ticket id.
TicketAudit(p) ==
    /\ procs[p].op = "ticket" /\ procs[p].pc = "audit"
    /\ auditLog' = Append(auditLog,
           [accountId |-> procs[p].loc.accountId, sessionId |-> 0,
            action |-> "conversation_to_ticket", status |-> "success"])
    /\ Finish(p, ResponseRow(201, procs[p].loc.ticketId))
    /\ UNCHANGED <<accounts, sessions, contacts, identities, conversations, messages,
                   templates, providerCalls, now, started>>

TicketStep(p) ==
    \/ \E outcome \in TicketOutcomes : TicketCreate(p, outcome)
    \/ TicketLink(p)
    \/ TicketAudit(p)

\* ------------------------------------------------------------------ create template
\* POST /api/whatsapp/templates
TemplateRequests ==
    {[tenantId |-> "t1", licensed |-> TRUE, json |-> TRUE, accountId |-> 1, name |-> "promo",
      bodyTemplate |-> "Hello"],
     [tenantId |-> "t1", licensed |-> TRUE, json |-> TRUE, accountId |-> 1, name |-> "",
      bodyTemplate |-> "Hello"],
     [tenantId |-> "t1", licensed |-> TRUE, json |-> TRUE, accountId |-> 9, name |-> "promo",
      bodyTemplate |-> "Hello"],
     [tenantId |-> "t1", licensed |-> FALSE, json |-> TRUE, accountId |-> 1, name |-> "promo",
      bodyTemplate |-> "Hello"],
     [tenantId |-> "t2", licensed |-> TRUE, json |-> TRUE, accountId |-> 1, name |-> "promo",
      bodyTemplate |-> "Hello"],
     [tenantId |-> "t2", licensed |-> TRUE, json |-> TRUE, accountId |-> 1, name |-> "promo",
      bodyTemplate |-> ""],
     [tenantId |-> "t1", licensed |-> TRUE, json |-> FALSE, accountId |-> 0, name |-> "",
      bodyTemplate |-> ""]}

\* part_002 lines 6-16, 90: createTemplateSchema.parse.
TemplateSchemaOk(req) == req.accountId # 0 /\ req.name # "" /\ req.bodyTemplate # ""

\* part_002 lines 87-102: license, body (a body that is not JSON makes
\* request.json() throw at line 89 and the catch of lines 132-151 answers
\* 500), schema, account lookup, ownership.
TemplateFind(p, req) ==
    /\ Begin(p, MaxSendRequests)
    /\ IF ~req.licensed THEN
           Reject(p, "template", req, Response(403, "Module not licensed"))
       ELSE IF ~req.json THEN
           Reject(p, "template", req, Response(500, "Failed to create template"))
       ELSE IF ~TemplateSchemaOk(req) THEN
           Reject(p, "template", req, Response(400, "Validation error"))
       ELSE IF req.accountId \notin Ids(accounts)
               \/ ~OwnedBy(req.accountId, req.tenantId) THEN
           Reject(p, "template", req, Response(403, "Unauthorized"))
       ELSE
           Start(p, "template", "createTemplate", req, [templateId |-> 0])
    /\ UNCHANGED <<tables, providerCalls, now>>

\* part_002 lines 104-117: whatsappTemplate.create.
TemplateCreate(p) ==
    /\ procs[p].op = "template" /\ procs[p].pc = "createTemplate"
    /\ templates' = Append(templates,
           [accountId |-> procs[p].req.accountId, name |-> procs[p].req.name,
            bodyTemplate |-> procs[p].req.bodyTemplate])
    /\ Goto(p, "audit", [templateId |-> Len(templates) + 1])
    /\ UNCHANGED <<accounts, sessions, contacts, identities, conversations, messages,
                   auditLog, providerCalls, now, started>>

\* part_002 lines 119-131: whatsappAuditLog.create, then 201 with the template.
TemplateAudit(p) ==
    /\ procs[p].op = "template" /\ procs[p].pc = "audit"
    /\ auditLog' = Append(auditLog,
           [accountId |-> procs[p].req.accountId, sessionId |-> 0,
            action |-> "template_create", status |-> "success"])
    /\ Finish(p, ResponseRow(201, procs[p].loc.templateId))
    /\ UNCHANGED <<accounts, sessions, contacts, identities, conversations, messages,
                   templates, providerCalls, now, started>>

\* ------------------------------------------------------------------ environment
\* The wall clock advances.
Tick ==
    /\ now < MaxTime
    /\ now' = now + 1
    /\ UNCHANGED <<tables, providerCalls, started, procs>>

\* The response has gone out; the slot is free for another request.
Return(p) ==
    /\ procs[p].pc = "done"
    /\ procs' = [procs EXCEPT ![p] = Idle]
    /\ UNCHANGED <<tables, providerCalls, now, started>>

\* ------------------------------------------------------------------ initial states
\* Accounts as onboarding leaves them: a self-hosted account of tenant t1 with
\* its bridge URL and key, a self-hosted account of tenant t2 registered with
\* the bridge URL and no key (the key is optional, accounts/route.ts lines
\* 89-132), a self-hosted account of tenant t2 with both, and a
\* platform-hosted account of tenant t2, with internalWahaUrl, internalApiKey
\* and instance id set, wahaBaseUrl and wahaApiKey null and status waiting_qr:
\* the row the create call of quick-connect/route.ts lines 138-152 describes.
\* The quick-connect handler itself stops at its line 41 (authenticateRequest
\* is not declared) and accounts/route.ts refuses payaid_hosted, so this row
\* is written by the platform's provisioning, outside these handlers; it is
\* the account the onboarding status handler (part_004 lines 18-110) serves.
\* A flag says whether the column is set.  A self-hosted account is stored
\* active and without an instance id.
InitAccounts ==
    <<[tenantId |-> "t1", wahaBaseUrl |-> TRUE, wahaApiKey |-> TRUE,
       internalWahaUrl |-> FALSE, internalApiKey |-> FALSE,
       paynaidInstanceId |-> "", status |-> "active"],
      [tenantId |-> "t2", wahaBaseUrl |-> TRUE, wahaApiKey |-> FALSE,
       internalWahaUrl |-> FALSE, internalApiKey |-> FALSE,
       paynaidInstanceId |-> "", status |-> "active"],
      [tenantId |-> "t2", wahaBaseUrl |-> TRUE, wahaApiKey |-> TRUE,
       internalWahaUrl |-> FALSE, internalApiKey |-> FALSE,
       paynaidInstanceId |-> "", status |-> "active"],
      [tenantId |-> "t2", wahaBaseUrl |-> FALSE, wahaApiKey |-> FALSE,
       internalWahaUrl |-> TRUE, internalApiKey |-> TRUE,
       paynaidInstanceId |-> "hosted-4", status |-> "waiting_qr"]>>

\* A session as a poll that found it connected leaves it.
ConnectedSession(accountId, providerSessionId, phoneNumber) ==
    [NewSession(accountId, providerSessionId) EXCEPT
        !.status = "connected", !.phoneNumber = phoneNumber,
        !.lastSyncAt = 1, !.lastSeenAt = 1]

\* A session that was connected and that a later poll found not connected:
\* PollUpdate sets its status back to pending_qr and keeps the number
\* (part_001 lines 110-122).
LapsedSession(accountId, providerSessionId, phoneNumber) ==
    [ConnectedSession(accountId, providerSessionId, phoneNumber) EXCEPT
        !.status = "pending_qr"]

InitTemplates ==
    <<[accountId |-> 1, name |-> "welcome", bodyTemplate |-> "Welcome!"],
      [accountId |-> 3, name |-> "offer", bodyTemplate |-> "Offer of t2"]>>

InitCommon ==
    /\ accounts = InitAccounts
    /\ templates = InitTemplates
    /\ auditLog = <<>>
    /\ providerCalls = {}
    /\ now = 1
    /\ started = 0
    /\ procs = [p \in Procs |-> Idle]

\* A conversation with one outbound message the provider accepted as wamid-1.
InitStatus ==
    /\ InitCommon
    /\ sessions = <<ConnectedSession(1, "waha-1", "+100")>>
    /\ contacts = <<[tenantId |-> "t1", phone |-> "+911", name |-> "+911",
                     source |-> "whatsapp"]>>
    /\ identities = <<[contactId |-> 1, whatsappNumber |-> "+911"]>>
    /\ conversations = <<[accountId |-> 1, contactId |-> 1, sessionId |-> 1,
                          status |-> "open", lastMessageAt |-> 1, lastDirection |-> "out",
                          unreadCount |-> 0, ticketId |-> 0]>>
    /\ messages = <<[conversationId |-> 1, sessionId |-> 1, direction |-> "out",
                     messageType |-> "text", whatsappMessageId |-> "wamid-1",
                     fromNumber |-> "+100", toNumber |-> "+911", text |-> "hello",
                     mediaUrl |-> "", templateId |-> 0, status |-> "sent",
                     errorCode |-> "", errorMessage |-> "",
                     sentAt |-> 1, deliveredAt |-> 0, readAt |-> 0, createdAt |-> 1]>>

\* One connected session and no traffic yet.
InitInbound ==
    /\ InitCommon
    /\ sessions = <<ConnectedSession(1, "waha-1", "+100")>>
    /\ contacts = <<>>
    /\ identities = <<>>
    /\ conversations = <<>>
    /\ messages = <<>>

\* Two sessions of account 1, the first connected or lapsed, the second new
\* or connected, and a session of account 3; a conversation bound to session 1
\* and a conversation with no bound session.
InitSendWith(identityRows) ==
    /\ InitCommon
    /\ sessions \in {<<s1, s2, ConnectedSession(3, "waha-3", "+300")>> :
                         s1 \in {ConnectedSession(1, "waha-1", "+100"),
                                 LapsedSession(1, "waha-1", "+100")},
                         s2 \in {NewSession(1, "waha-2"),
                                 ConnectedSession(1, "waha-2", "+200")}}
    /\ contacts = <<[tenantId |-> "t1", phone |-> "+911", name |-> "+911",
                     source |-> "whatsapp"],
                    [tenantId |-> "t1", phone |-> "+912", name |-> "+912",
                     source |-> "whatsapp"]>>
    /\ identities = identityRows
    /\ conversations = <<[accountId |-> 1, contactId |-> 1, sessionId |-> 1,
                          status |-> "open", lastMessageAt |-> 0, lastDirection |-> "",
                          unreadCount |-> 0, ticketId |-> 0],
                         [accountId |-> 1, contactId |-> 2, sessionId |-> 0,
                          status |-> "open", lastMessageAt |-> 0, lastDirection |-> "",
                          unreadCount |-> 0, ticketId |-> 0]>>
    /\ messages = <<>>

InitSend ==
    InitSendWith(<<[contactId |-> 1, whatsappNumber |-> "+911"],
                   [contactId |-> 2, whatsappNumber |-> "+912"]>>)

\* As InitSend, after the identity row of contact 2 has been removed from the
\* store (no handler of this module deletes one; the tables are shared with
\* the platform): conversation 2 is left with a contact that has no number.
InitDetached ==
    InitSendWith(<<[contactId |-> 1, whatsappNumber |-> "+911"]>>)

\* Traffic has happened: conversation 1, bound to the connected session 1,
\* holds one outbound message the provider accepted as wamid-1 and the
\* contact's reply wamid-2, still unread; conversation 2 has no bound session;
\* the number +912 has never written.
InitApi ==
    /\ InitCommon
    /\ sessions = <<[ConnectedSession(1, "waha-1", "+100") EXCEPT
                        !.dailySentCount = 1, !.dailyRecvCount = 1],
                    NewSession(1, "waha-2"),
                    ConnectedSession(3, "waha-3", "+300")>>
    /\ contacts = <<[tenantId |-> "t1", phone |-> "+911", name |-> "+911",
                     source |-> "whatsapp"],
                    [tenantId |-> "t1", phone |-> "+913", name |-> "+913",
                     source |-> "whatsapp"]>>
    /\ identities = <<[contactId |-> 1, whatsappNumber |-> "+911"],
                      [contactId |-> 2, whatsappNumber |-> "+913"]>>
    /\ conversations = <<[accountId |-> 1, contactId |-> 1, sessionId |-> 1,
                          status |-> "open", lastMessageAt |-> 1, lastDirection |-> "in",
                          unreadCount |-> 1, ticketId |-> 0],
                         [accountId |-> 1, contactId |-> 2, sessionId |-> 0,
                          status |-> "open", lastMessageAt |-> 0, lastDirection |-> "",
                          unreadCount |-> 0, ticketId |-> 0]>>
    /\ messages = <<[conversationId |-> 1, sessionId |-> 1, direction |-> "out",
                     messageType |-> "text", whatsappMessageId |-> "wamid-1",
                     fromNumber |-> "+100", toNumber |-> "+911", text |-> "hello",
                     mediaUrl |-> "", templateId |-> 0, status |-> "sent",
                     errorCode |-> "", errorMessage |-> "",
                     sentAt |-> 1, deliveredAt |-> 0, readAt |-> 0, createdAt |-> 1],
                    [conversationId |-> 1, sessionId |-> 1, direction |-> "in",
                     messageType |-> "text", whatsappMessageId |-> "wamid-2",
                     fromNumber |-> "+911", toNumber |-> "+100", text |-> "Hi",
                     mediaUrl |-> "", templateId |-> 0, status |-> "delivered",
                     errorCode |-> "", errorMessage |-> "",
                     sentAt |-> 0, deliveredAt |-> 0, readAt |-> 0, createdAt |-> 1]>>

\* ------------------------------------------------------------------ specifications
NextStatus ==
    \/ \E p \in Procs, req \in StatusRequests : StatusFind(p, req)
    \/ \E p \in Procs : StatusUpdate(p)
    \/ \E p \in Procs : Return(p)
    \/ Tick

SpecStatus == InitStatus /\ [][NextStatus]_vars

InboundStep(p) ==
    \/ InboundFindIdentity(p)
    \/ InboundCreateContact(p)
    \/ InboundCreateIdentity(p)
    \/ InboundFindConversation(p)
    \/ InboundCreateConversation(p)
    \/ InboundCreateMessage(p)
    \/ InboundUpdateConversation(p)
    \/ InboundUpdateSession(p)
    \/ InboundAudit(p)

NextInbound ==
    \/ \E p \in Procs, req \in InboundRequests : InboundFindSession(p, req)
    \/ \E p \in Procs : InboundStep(p)
    \/ \E p \in Procs : Return(p)

SpecInbound == InitInbound /\ [][NextInbound]_vars

SendStep(p) ==
    \/ SendFindSession(p)
    \/ SendFindIdentity(p)
    \/ SendFindTemplate(p)
    \/ \E outcome \in SendOutcomes : SendCallProvider(p, outcome)
    \/ SendCreateMessage(p)
    \/ SendUpdateConversation(p)
    \/ SendUpdateSession(p)
    \/ SendAudit(p)

PollStep(p) ==
    \/ \E outcome \in PollOutcomes : PollCallProvider(p, outcome)
    \/ PollUpdate(p)

CreateSessionStep(p) ==
    \/ \E outcome \in ProvisionOutcomes : CreateSessionCallCreate(p, outcome)
    \/ \E outcome \in ProvisionOutcomes : CreateSessionCallQr(p, outcome)
    \/ CreateSessionCreate(p)
    \/ CreateSessionAudit(p)

PatchStep(p) ==
    \/ PatchCheckSession(p)
    \/ PatchUpdate(p)

TemplateStep(p) ==
    \/ TemplateCreate(p)
    \/ TemplateAudit(p)

\* The tenant-facing operations.
NextSend ==
    \/ \E p \in Procs, req \in SendRequests : SendFindConversation(p, req)
    \/ \E p \in Procs : SendStep(p)
    \/ \E p \in Procs, req \in PollRequests : PollFind(p, req)
    \/ \E p \in Procs : PollStep(p)
    \/ \E p \in Procs, req \in CreateSessionRequests : CreateSessionFind(p, req)
    \/ \E p \in Procs : CreateSessionStep(p)
    \/ \E p \in Procs, req \in PatchRequests : PatchFind(p, req)
    \/ \E p \in Procs : PatchStep(p)
    \/ \E p \in Procs, req \in TemplateRequests : TemplateFind(p, req)
    \/ \E p \in Procs : TemplateStep(p)
    \/ \E p \in Procs : Return(p)

SpecSend == InitSend /\ [][NextSend]_vars

SpecDetached == InitDetached /\ [][NextSend]_vars

\* The tenant-facing operations and the two webhooks together.
NextApi ==
    \/ NextSend
    \/ \E p \in Procs, req \in InboundRequests :
           started < MaxSendRequests /\ InboundFindSession(p, req)
    \/ \E p \in Procs : InboundStep(p)
    \/ \E p \in Procs, req \in StatusRequests :
           started < MaxSendRequests /\ StatusFind(p, req)
    \/ \E p \in Procs : StatusUpdate(p)
    \/ \E p \in Procs, req \in GetRequests : GetConversation(p, req)
    \/ \E p \in Procs, req \in AccountReadRequests : ListSessions(p, req)
    \/ \E p \in Procs : ListSessionsFindMany(p)
    \/ \E p \in Procs, req \in AccountReadRequests : ListTemplates(p, req)
    \/ \E p \in Procs : ListTemplatesFindMany(p)
    \/ \E p \in Procs, req \in AccountReadRequests : AnalyticsFind(p, req)
    \/ \E p \in Procs : AnalyticsStep(p)
    \/ \E p \in Procs, req \in OnboardingRequests : OnboardingFind(p, req)
    \/ \E p \in Procs : OnboardingStep(p)
    \/ \E p \in Procs, req \in TicketRequests : TicketFind(p, req)
    \/ \E p \in Procs : TicketStep(p)

SpecApi == InitApi /\ [][NextApi]_vars

\* Browsers arriving at the OAuth callback.
NextOAuth ==
    \/ \E p \in Procs, req \in OAuthRequests : OAuthCallback(p, req)
    \/ \E p \in Procs, outcome \in TokenOutcomes : OAuthExchanged(p, outcome)
    \/ \E p \in Procs : Return(p)

SpecOAuth == InitApi /\ [][NextOAuth]_vars

\* Inbound messages from the same numbers to a session of tenant t1 and to a
\* session of tenant t2.
TenantInboundRequests ==
    [instance : {"waha-1", "waha-3"}, hasData : {TRUE}, from : Phones, text : {"Hi"},
     type : {"text"}, id : {"wamid-1"}, timestamp : {MaxTime}, mediaUrl : {""}]

\* Nobody has written yet; account 1 (tenant t1) and account 3 (tenant t2)
\* each have a connected session.
InitTenants ==
    /\ InitCommon
    /\ sessions = <<ConnectedSession(1, "waha-1", "+100"),
                    ConnectedSession(3, "waha-3", "+300")>>
    /\ contacts = <<>>
    /\ identities = <<>>
    /\ conversations = <<>>
    /\ messages = <<>>

NextTenants ==
    \/ \E p \in Procs, req \in TenantInboundRequests :
           started < MaxTenantRequests /\ InboundFindSession(p, req)
    \/ \E p \in Procs : InboundStep(p)
    \/ \E p \in Procs : Return(p)

SpecTenants == InitTenants /\ [][NextTenants]_vars

\* A send and inbound webhooks on the same store, overlapping.
NextRace ==
    \/ \E p \in Procs, req \in SendRequests : SendFindConversation(p, req)
    \/ \E p \in Procs : SendStep(p)
    \/ \E p \in Procs, req \in InboundRequests :
           started < MaxRaceRequests /\ InboundFindSession(p, req)
    \/ \E p \in Procs : InboundStep(p)
    \/ \E p \in Procs : Return(p)

SpecRace == InitApi /\ [][NextRace]_vars

\* Sends that name template 2, which belongs to account 3 of tenant t2.
ForeignTemplateSends ==
    {[tenantId |-> "t1", licensed |-> TRUE, json |-> TRUE, conversationId |-> c, text |-> "",
      mediaUrl |-> Undefined, templateId |-> 2] : c \in {1, 2}}

NextTemplates ==
    \/ \E p \in Procs, req \in SendRequests \cup ForeignTemplateSends :
           SendFindConversation(p, req)
    \/ \E p \in Procs : SendStep(p)
    \/ \E p \in Procs : Return(p)

SpecTemplates == InitApi /\ [][NextTemplates]_vars

\* Status polls while the clock advances.
NextPoll ==
    \/ \E p \in Procs, req \in PollRequests : PollFind(p, req)
    \/ \E p \in Procs : PollStep(p)
    \/ \E p \in Procs : Return(p)
    \/ Tick

SpecPoll == InitApi /\ [][NextPoll]_vars

\* The send specification with a store whose writes can fail.
NextSendFault ==
    \/ NextSend
    \/ \E p \in Procs, req \in SendRequests : SendFindConversationFails(p, req)
    \/ \E p \in Procs, message \in StoreErrors : SendFindTemplateFails(p, message)
    \/ \E p \in Procs : SendStoreFails(p)

SpecSendFault == InitSend /\ [][NextSendFault]_vars

\* The inbound specification with a store whose calls can fail.
NextInboundFault ==
    \/ NextInbound
    \/ \E p \in Procs, req \in InboundRequests : InboundFindSessionFails(p, req)
    \/ \E p \in Procs : InboundStoreFails(p)

SpecInboundFault == InitInbound /\ [][NextInboundFault]_vars

\* ------------------------------------------------------------------ claims
\* C1: message status is terminal at read and failed: a step never changes
\* the status of a message whose status is read or failed (so READ followed
\* by DELIVERED leaves the message read).
C1_StatusTerminal ==
    [][\A m \in Ids(messages) :
          messages[m].status \in {"read", "failed"}
              => messages'[m].status = messages[m].status]_vars

Quiescent == \A p \in Procs : procs[p].pc \in {"idle", "done"}

\* C2: after any sequence of inbound webhooks, replays included, at most one
\* Message row carries a given provider message id.
C2_OneMessagePerProviderId ==
    \A x \in ProviderMsgIds :
        Cardinality({m \in Ids(messages) : messages[m].whatsappMessageId = x}) <= 1

\* C3: once the inbound webhooks in flight have all answered, a phone number
\* has at most one Contact row, and every Contact has its ContactIdentity
\* (no duplicate, no orphan), whatever the interleaving was.
C3_OneContactPerNumber ==
    Quiescent =>
        /\ \A ph \in Phones :
               Cardinality({c \in Ids(contacts) : contacts[c].phone = ph}) <= 1
        /\ \A c \in Ids(contacts) :
               \E i \in Ids(identities) : identities[i].contactId = c

\* C4: in every reachable state, at most one Conversation exists for a pair
\* (accountId, contactId).
C4_OneConversationPerPair ==
    \A c, d \in Ids(conversations) :
        (conversations[c].accountId = conversations[d].accountId
         /\ conversations[c].contactId = conversations[d].contactId) => c = d

\* C4 witness: two webhooks raced to create the conversation of the same pair;
\* one created it, the other's create was refused by the store.
C4_Witness ==
    \E p \in Procs :
        /\ procs[p].op = "inbound" /\ procs[p].pc = "done"
        /\ procs[p].res.status = 500
        /\ \E c \in Ids(conversations) :
               /\ conversations[c].accountId = procs[p].loc.accountId
               /\ conversations[c].contactId = procs[p].loc.contactId

\* Inbound webhooks for session s that ran to their success response.
InboundCompleted(s) ==
    Cardinality({a \in Ids(auditLog) :
        auditLog[a].action = "message_receive" /\ auditLog[a].sessionId = s})

\* C5: when the inbound webhooks for a session have all completed, its
\* dailyRecvCount has grown (from 0) by exactly their number, whatever the
\* interleaving was.
C5_RecvCountExact ==
    Quiescent => \A s \in Ids(sessions) : sessions[s].dailyRecvCount = InboundCompleted(s)

\* C5 witness: two webhooks for session 1 both read the session while its
\* counter was 0, both completed, and the counter is 2.
C5_Witness ==
    /\ \A p \in Procs :
           /\ procs[p].op = "inbound" /\ procs[p].pc = "done"
           /\ procs[p].res.status = 200
           /\ procs[p].loc.sessionId = 1 /\ procs[p].loc.recvCount = 0
    /\ sessions[1].dailyRecvCount = 2

\* The send in slot p has made its provider call.
Called(p) ==
    /\ procs[p].op = "send"
    /\ "called" \in DOMAIN procs[p].loc
    /\ procs[p].loc.called

ConnectedSessions(accountId) ==
    {s \in Ids(sessions) : sessions[s].accountId = accountId
                           /\ sessions[s].status = "connected"}

\* The request passes the license, schema, payload, existence and ownership
\* checks that precede session resolution.
SendAdmitted(req) ==
    /\ req.licensed /\ SendSchemaOk(req) /\ SendPayloadOk(req)
    /\ req.conversationId \in Ids(conversations)
    /\ accounts[conversations[req.conversationId].accountId].tenantId = req.tenantId

\* C6: a step in which a send resolves its session while the conversation's
\* account has no connected session ends that send with NoActiveSession (and
\* so without a Message row), whether the conversation has a bound session or
\* not.
C6_NoActiveSession ==
    [][\A p \in Procs :
          (/\ procs'[p].op = "send"
           /\ \/ procs[p].pc = "idle" /\ procs'[p].pc # "idle"
                 /\ SendAdmitted(procs'[p].req)
                 /\ conversations[procs'[p].req.conversationId].sessionId # 0
              \/ procs[p].pc = "findSession" /\ procs'[p].pc # "findSession"
           /\ ConnectedSessions(conversations[procs'[p].req.conversationId].accountId) = {})
          => /\ procs'[p].pc = "done"
             /\ procs'[p].res = Response(400, "No active WhatsApp session")]_vars

\* C7: the session a send calls the provider with (and records on the
\* Message) was connected when the send resolved it.
C7_ResolvedSessionConnected ==
    \A p \in Procs : Called(p) => procs[p].loc.session.status = "connected"

\* C8: a text send on a conversation with no bound session that the provider
\* accepted has answered 201 with a Message of direction out, status sent,
\* whose session is the one the send resolved: a session of the
\* conversation's account that was connected when resolved.
C8_FallbackSend ==
    \A p \in Procs :
        (/\ procs[p].op = "send" /\ procs[p].pc = "done"
         /\ procs[p].req.text # "" /\ procs[p].req.mediaUrl = Undefined
         /\ procs[p].req.templateId = 0
         /\ SendAdmitted(procs[p].req)
         /\ conversations[procs[p].req.conversationId].sessionId = 0
         /\ Called(p) /\ procs[p].loc.outcome.ok)
        => /\ procs[p].res.status = 201
           /\ procs[p].res.row \in Ids(messages)
           /\ LET m == messages[procs[p].res.row] IN
              /\ m.direction = "out" /\ m.status = "sent"
              /\ m.conversationId = procs[p].req.conversationId
              /\ m.sessionId = procs[p].loc.session.id
              /\ procs[p].loc.session.status = "connected"
              /\ sessions[m.sessionId].accountId
                     = conversations[procs[p].req.conversationId].accountId

\* C8 witness: such a send has completed on the unbound conversation 2 while
\* the account has exactly one connected session, and its Message uses it.
C8_Witness ==
    \E p \in Procs :
        /\ procs[p].op = "send" /\ procs[p].pc = "done"
        /\ procs[p].req.conversationId = 2 /\ procs[p].req.text # ""
        /\ procs[p].res.status = 201
        /\ messages[procs[p].res.row].status = "sent"
        /\ ConnectedSessions(1) = {messages[procs[p].res.row].sessionId}

\* Sends that have written their Message row and not yet their audit row.
SendsPastCreate ==
    {p \in Procs : procs[p].op = "send"
                   /\ procs[p].pc \in {"updateConversation", "updateSession", "audit"}}
SendsAudited ==
    Cardinality({a \in Ids(auditLog) : auditLog[a].action = "message_send"})

\* C9: a send that made its provider call records exactly one outbound
\* Message whatever the outcome: status sent if the provider accepted, failed
\* with the provider's error code and message otherwise; and it answers 201
\* with that Message.
C9_SendAlwaysRecorded ==
    /\ \A p \in Procs :
           (Called(p) /\ procs[p].pc \notin {"createMessage"})
           => /\ procs[p].loc.messageId \in Ids(messages)
              /\ LET m == messages[procs[p].loc.messageId]
                     outcome == procs[p].loc.outcome
                 IN  /\ m.direction = "out"
                     /\ m.conversationId = procs[p].req.conversationId
                     /\ m.status = (IF outcome.ok THEN "sent" ELSE "failed")
                     /\ m.errorCode = outcome.code
                     /\ m.errorMessage = outcome.message
                     /\ ~outcome.ok => m.errorCode # ""
              /\ procs[p].pc = "done"
                     => procs[p].res = ResponseRow(201, procs[p].loc.messageId)
    /\ Cardinality({m \in Ids(messages) : messages[m].direction = "out"})
           = SendsAudited + Cardinality(SendsPastCreate)

\* C9 witness: a send whose provider call timed out has answered 201 with a
\* failed Message carrying the error.
C9_Witness ==
    \E p \in Procs :
        /\ Called(p) /\ procs[p].pc = "done"
        /\ ~procs[p].loc.outcome.ok /\ procs[p].loc.outcome.code = "UNKNOWN"
        /\ procs[p].res.status = 201
        /\ messages[procs[p].res.row].status = "failed"
        /\ messages[procs[p].res.row].errorMessage = "timeout of 10000ms exceeded"

\* The payload is a tagged variant: exactly one of text, mediaUrl and
\* templateId is populated, a caption (text) beside media excepted.
TaggedVariant(req) ==
    \/ req.text # "" /\ req.templateId = 0
    \/ req.text = "" /\ req.mediaUrl # Undefined /\ req.templateId = 0
    \/ req.text = "" /\ req.mediaUrl = Undefined /\ req.templateId # 0

\* C10: a send whose payload is not a tagged variant (none populated, or
\* two or more) never gets to the provider call or to a Message row.
C10_PayloadVariant ==
    \A p \in Procs :
        (procs[p].op = "send" /\ ~TaggedVariant(procs[p].req))
        => /\ procs[p].pc \notin {"callProvider", "createMessage", "updateConversation",
                                  "updateSession", "audit"}
           /\ ~Called(p)

\* Outbound Message rows recorded for session s.
OutboundOf(s) ==
    {m \in Ids(messages) : messages[m].direction = "out" /\ messages[m].sessionId = s}

\* C11: the outbound Message, the conversation's lastMessageAt/lastDirection
\* and the session's dailySentCount are written as one unit: whenever no send
\* is in flight (so also after a send that a failing store write cut short), a
\* session's dailySentCount is the number of outbound Messages recorded for it
\* and every outbound Message's conversation carries lastDirection out and a
\* lastMessageAt not before the message.
C11_SendAtomic ==
    Quiescent =>
        /\ \A s \in Ids(sessions) : sessions[s].dailySentCount = Cardinality(OutboundOf(s))
        /\ \A m \in Ids(messages) :
               messages[m].direction = "out"
               => /\ conversations[messages[m].conversationId].lastDirection = "out"
                  /\ conversations[messages[m].conversationId].lastMessageAt
                         >= messages[m].createdAt

\* Inbound Message rows recorded in conversation c, and for session s.
InboundIn(c) ==
    {m \in Ids(messages) : messages[m].direction = "in" /\ messages[m].conversationId = c}
InboundOf(s) ==
    {m \in Ids(messages) : messages[m].direction = "in" /\ messages[m].sessionId = s}

\* C12: recording an inbound message is one unit: whenever no webhook is in
\* flight (so also after one that a failing store write cut short), every
\* inbound Message has had its increments and no increment lacks its Message:
\* a conversation's unreadCount is the number of its inbound Messages, with
\* lastDirection in once it has one, and a session's dailyRecvCount is the
\* number of inbound Messages recorded for it.
C12_InboundAtomic ==
    Quiescent =>
        /\ \A c \in Ids(conversations) :
               /\ conversations[c].unreadCount = Cardinality(InboundIn(c))
               /\ InboundIn(c) # {} => conversations[c].lastDirection = "in"
        /\ \A s \in Ids(sessions) : sessions[s].dailyRecvCount = Cardinality(InboundOf(s))

\* C13: an inbound webhook to an existing session whose sender had no
\* ContactIdentity when the handler looked it up has, once it has answered,
\* left exactly one Contact for the number, one ContactIdentity for the number
\* pointing to that Contact, one Conversation of the pair with status open and
\* bound to the session, and a Message of direction in carrying the payload.
C13_FirstContact ==
    \A p \in Procs :
        (/\ procs[p].op = "inbound" /\ procs[p].pc = "done"
         /\ procs[p].loc # NoLoc
         /\ ~procs[p].loc.identityFound)
        => LET from == procs[p].req.from
               cs == {c \in Ids(contacts) : contacts[c].phone = from}
               is == {i \in Ids(identities) : identities[i].whatsappNumber = from}
               vs == {v \in Ids(conversations) :
                         /\ conversations[v].accountId = procs[p].loc.accountId
                         /\ conversations[v].contactId \in cs}
           IN  /\ Cardinality(cs) = 1
               /\ Cardinality(is) = 1
               /\ \A i \in is : identities[i].contactId \in cs
               /\ Cardinality(vs) = 1
               /\ \A v \in vs :
                      /\ conversations[v].status = "open"
                      /\ conversations[v].sessionId = procs[p].loc.sessionId
                      /\ \E m \in Ids(messages) :
                             /\ messages[m].conversationId = v
                             /\ messages[m].direction = "in"
                             /\ messages[m].fromNumber = from
                             /\ messages[m].text = procs[p].req.text
                             /\ messages[m].whatsappMessageId = procs[p].req.id

\* The account that owns the resource the request of kind op addresses; 0 if
\* the resource does not exist.
OwningAccount(op, req) ==
    CASE op \in {"send", "patch"} ->
             IF req.conversationId \in Ids(conversations)
             THEN conversations[req.conversationId].accountId ELSE 0
      [] op = "poll" ->
             IF req.sessionId \in Ids(sessions) THEN sessions[req.sessionId].accountId ELSE 0
      [] op \in {"createSession", "template"} ->
             IF req.accountId \in Ids(accounts) THEN req.accountId ELSE 0
      [] OTHER -> 0

\* The request comes from a caller of another tenant than the owning
\* account's.
ForeignCaller(op, req) ==
    /\ OwningAccount(op, req) # 0
    /\ accounts[OwningAccount(op, req)].tenantId # req.tenantId

\* C14: a step that lets in a tenant-facing request (create session, poll,
\* send, update conversation, create template) from a caller of another
\* tenant than the owning account's answers it with Unauthorized in that same
\* step, with no provider call and no store write.
C14_ForeignUnauthorized ==
    [][\A p \in Procs :
          (/\ procs[p].pc = "idle" /\ procs'[p].pc # "idle"
           /\ ForeignCaller(procs'[p].op, procs'[p].req))
          => /\ procs'[p].pc = "done"
             /\ procs'[p].res = Response(403, "Unauthorized")
             /\ UNCHANGED <<tables, providerCalls>>]_vars

\* Positions of a handler at which it has only read the store so far.
ReadingPcs == {"findSession", "findIdentity", "findTemplate", "checkSession"}

\* The response is a validation, authorization or not-found error.
Rejection(res) == res.status \in {400, 403, 404}

\* C15: a request rejected with a validation or authorization error leaves
\* every row unchanged: the step that rejects it writes nothing and is taken
\* from a position the handler reached without writing (the steps that lead
\* to those positions write nothing either).
C15_RejectionNoChange ==
    [][\A p \in Procs :
          procs'[p] # procs[p]
          => /\ (procs'[p].pc = "done" /\ procs[p].pc # "done" /\ Rejection(procs'[p].res))
                => /\ procs[p].pc \in {"idle"} \cup ReadingPcs
                   /\ UNCHANGED tables
             /\ procs'[p].pc \in ReadingPcs => UNCHANGED tables]_vars

\* C15 witness: a conversation update naming a session that does not belong
\* to the conversation's account has been rejected with Invalid session.
C15_Witness ==
    \E p \in Procs :
        /\ procs[p].op = "patch" /\ procs[p].pc = "done"
        /\ procs[p].req.sessionId = 3
        /\ procs[p].res = Response(400, "Invalid session")

\* C16: a createSession whose instance creation or QR request failed or timed
\* out ends there: it answers 500 with the upstream message in the error, and
\* neither that step nor any other step of the request writes a Session row
\* or an AuditLog row.
C16_ProviderFailureNoRow ==
    [][\A p \in Procs :
          (/\ procs'[p].op = "createSession"
           /\ procs'[p].loc # NoLoc
           /\ procs'[p].loc.message # "")
          => /\ procs'[p].pc = "done"
             /\ procs'[p].loc.sessionId = 0
             /\ procs'[p].res.status = 500
             /\ procs'[p].loc.message = "bridge error"
                    => procs'[p].res.error = "Failed to create WAHA session: bridge error"
             /\ procs'[p].loc.message = "timeout of 10000ms exceeded"
                    => procs'[p].res.error
                           = "Failed to create WAHA session: timeout of 10000ms exceeded"
             /\ procs'[p] # procs[p] => UNCHANGED <<sessions, auditLog>>]_vars

\* C16 witness: the instance was created, the QR request timed out, the
\* caller has the 500 and the store has no new session and no audit row.
C16_Witness ==
    \E p \in Procs :
        /\ procs[p].op = "createSession" /\ procs[p].pc = "done"
        /\ procs[p].res.status = 500
        /\ procs[p].loc # NoLoc
        /\ procs[p].loc.message = "timeout of 10000ms exceeded"
        /\ \E c \in providerCalls : c.kind = "getQr"
        /\ \A i \in Ids(sessions) : sessions[i].providerSessionId # procs[p].loc.sessionName
        /\ auditLog = <<>>

\* C17: session status follows pending_qr -> connected <-> disconnected: no
\* step (poll or webhook) moves an existing session from connected or
\* disconnected back to pending_qr.
C17_NoReturnToPendingQr ==
    [][\A i \in Ids(sessions) :
          sessions[i].status \in {"connected", "disconnected"}
              => sessions'[i].status # "pending_qr"]_vars

\* The session status the provider state word stands for, read without
\* regard to case; "" if the word is not one the mapping knows.
StateMeaning(wahaState) ==
    IF ToUpperCase(wahaState) = "CONNECTED" THEN "connected"
    ELSE IF ToUpperCase(wahaState) = "DISCONNECTED" THEN "disconnected"
    ELSE ""

\* C18: a poll the provider answered derives the session status from the
\* provider state without regard to case: any casing of CONNECTED gives
\* connected, any casing of DISCONNECTED gives disconnected, and any other
\* state leaves the status the session had.
C18_PollMapping ==
    \A p \in Procs :
        (procs[p].op = "poll" /\ procs[p].loc # NoLoc /\ procs[p].loc.reached)
        => procs[p].loc.newStatus =
               (IF StateMeaning(procs[p].loc.wahaState) # ""
                THEN StateMeaning(procs[p].loc.wahaState)
                ELSE procs[p].loc.status)

\* C19: a poll whose provider query got no answer (unreachable, timed out)
\* still succeeds: the step that gives up answers 200 with the status and the
\* phone number the handler read from the store, and writes no session.
C19_UnreachableCached ==
    [][\A p \in Procs :
          (/\ procs'[p].op = "poll"
           /\ procs'[p].loc # NoLoc
           /\ procs'[p].loc.asked /\ ~procs'[p].loc.reached)
          => /\ procs'[p].pc = "done"
             /\ procs'[p].res = Response(200, "")
             /\ procs'[p].loc.newStatus = procs'[p].loc.status
             /\ procs'[p].loc.newPhone = procs'[p].loc.phoneNumber
             /\ procs'[p] # procs[p] => sessions' = sessions]_vars

\* C19 witness: the poll of the connected session 1 was answered 200 with
\* connected and the stored number after the provider could not be reached,
\* and the session is as it was.
C19_Witness ==
    \E p \in Procs :
        /\ procs[p].op = "poll" /\ procs[p].pc = "done"
        /\ procs[p].loc # NoLoc
        /\ procs[p].loc.asked /\ ~procs[p].loc.reached
        /\ procs[p].res.status = 200
        /\ procs[p].loc.newStatus = "connected" /\ procs[p].loc.newPhone = "+100"
        /\ sessions[1] = ConnectedSession(1, "waha-1", "+100")

\* The message status the provider status word stands for, read without
\* regard to case; "" if the word is not one the mapping knows.
StatusMeaning(wahaStatus) ==
    CASE ToUpperCase(wahaStatus) \in {"DELIVERED", "ACK"} -> "delivered"
      [] ToUpperCase(wahaStatus) = "READ" -> "read"
      [] ToUpperCase(wahaStatus) \in {"FAILED", "ERROR"} -> "failed"
      [] OTHER -> ""

\* C20: the step in which a status webhook writes and answers succeeds, sets
\* the message's status to the one its status word stands for without regard
\* to case (DELIVERED, ACK: delivered; READ: read; FAILED, ERROR: failed), and
\* for any other or a missing word leaves the message's status, deliveredAt
\* and readAt exactly as they were.
C20_StatusMapping ==
    [][\A p \in Procs :
          (procs[p].op = "status" /\ procs[p].pc = "update" /\ procs'[p].pc = "done")
          => LET m == procs[p].loc.messageId
                 meaning == StatusMeaning(procs[p].req.status)
             IN  /\ procs'[p].res.status = 200
                 /\ IF meaning # "" THEN messages'[m].status = meaning
                    ELSE /\ messages'[m].status = messages[m].status
                         /\ messages'[m].deliveredAt = messages[m].deliveredAt
                         /\ messages'[m].readAt = messages[m].readAt]_vars

\* The status webhook in slot p writes in this step (lines 58-66) and its
\* status word stands for one of the statuses in meanings.
StatusWrites(p, meanings) ==
    /\ procs[p].op = "status" /\ procs[p].pc = "update" /\ procs'[p].pc = "done"
    /\ StatusMeaning(procs[p].req.status) \in meanings

\* C21: for a message that is not yet read or failed, no step overwrites a
\* deliveredAt that is set; a read event leaves readAt at its event time (the
\* webhook's timestamp when it carries one); and a delivered or failed event
\* leaves an existing readAt as it is.
C21_TimestampsMonotonic ==
    [][\A m \in Ids(messages) :
          messages[m].status \notin {"read", "failed"}
          => /\ messages[m].deliveredAt # 0
                    => messages'[m].deliveredAt = messages[m].deliveredAt
             /\ \A p \in Procs :
                    (StatusWrites(p, {"read"}) /\ procs[p].loc.messageId = m)
                    => /\ messages'[m].readAt # 0
                       /\ procs[p].req.timestamp # 0
                              => messages'[m].readAt = procs[p].req.timestamp
             /\ \A p \in Procs :
                    (/\ StatusWrites(p, {"delivered", "failed"})
                     /\ procs[p].loc.messageId = m
                     /\ messages[m].readAt # 0)
                    => messages'[m].readAt = messages[m].readAt]_vars

\* A webhook the handler cannot attribute: a well-formed inbound message whose
\* instance names no session, or a well-formed status event whose id names no
\* message.
UnknownTarget(op, req) ==
    /\ op \in {"inbound", "status"}
    /\ req.instance # "" /\ req.hasData
    /\ \/ /\ op = "inbound"
          /\ \A s \in Ids(sessions) : sessions[s].providerSessionId # req.instance
       \/ /\ op = "status" /\ req.id # ""
          /\ \A m \in Ids(messages) : messages[m].whatsappMessageId # req.id

\* C22: a webhook for an unknown instance (inbound) or an unknown message id
\* (status) is dropped: it is answered 404 at once, no row of any table is
\* created or changed, and no provider call or further step is left pending.
C22_UnknownDropped ==
    [][\A p \in Procs :
          (/\ procs[p].pc = "idle" /\ procs'[p].pc # "idle"
           /\ UnknownTarget(procs'[p].op, procs'[p].req))
          => /\ procs'[p].pc = "done"
             /\ procs'[p].res.status = 404
             /\ UNCHANGED <<tables, providerCalls>>]_vars

C22_Witness ==
    /\ \E p \in Procs : /\ procs[p].op = "inbound" /\ procs[p].pc = "done"
                        /\ procs[p].req.instance = "waha-x"
                        /\ procs[p].res = Response(404, "Session not found")
    /\ auditLog = <<>>

\* Request slot p has completed a mutating action: a session create, a send
\* (sent or failed), an inbound recording, a message status update, a
\* conversation update or a template create that answered success, or a poll
\* that changed the status of its session.
Mutated(p) ==
    /\ procs[p].pc = "done"
    /\ procs[p].res.status \in {200, 201}
    /\ \/ procs[p].op \in {"createSession", "send", "inbound", "status", "patch",
                           "template"}
       \/ /\ procs[p].op = "poll"
          /\ sessions[procs[p].req.sessionId].status # procs[p].loc.status

\* C23: a completed mutating action has appended exactly one AuditLog entry,
\* whose status is "failure" for a send recorded as failed and "success"
\* otherwise.  (The audit log starts empty and one request is admitted, so
\* the entry of the action is the only entry.)
C23_MutationsAudited ==
    \A p \in Procs :
        Mutated(p)
        => /\ Len(auditLog) = 1
           /\ auditLog[1].status =
                  IF procs[p].op = "send" /\ messages[procs[p].res.row].status = "failed"
                  THEN "failure" ELSE "success"

\* C24: whatever happens to the AuditLog write, the step that leaves the audit
\* stage of a send, a session create or an inbound recording reports success
\* and leaves the rows written before it in place.
C24_AuditFailureTolerated ==
    [][\A p \in Procs :
          (/\ procs[p].op \in {"send", "createSession", "inbound"}
           /\ procs[p].pc = "audit" /\ procs'[p].pc = "done")
          => /\ procs'[p].res.status \in {200, 201}
             /\ UNCHANGED <<accounts, sessions, contacts, identities, conversations,
                            messages, templates>>]_vars

\* C25: a step never removes a Message or Conversation row and changes no
\* field of an existing Message other than status, deliveredAt and readAt; a
\* step of a status webhook changes no Message other than the one its id
\* matched.
C25_MessageFrame ==
    [][/\ Len(messages') >= Len(messages)
       /\ Len(conversations') >= Len(conversations)
       /\ \A m \in Ids(messages) :
              [messages'[m] EXCEPT !.status = messages[m].status,
                                   !.deliveredAt = messages[m].deliveredAt,
                                   !.readAt = messages[m].readAt] = messages[m]
       /\ \A p \in Procs :
              (procs[p].op = "status" /\ procs'[p] # procs[p])
              => \A m \in Ids(messages) :
                     messages'[m] # messages[m]
                     => /\ m = procs[p].loc.messageId
                        /\ messages[m].whatsappMessageId = procs[p].req.id]_vars

\* A status webhook has rewritten the message it matched while the other
\* message of the conversation is as it was stored.
C25_Witness ==
    /\ \E p \in Procs : /\ procs[p].op = "status" /\ procs[p].pc = "done"
                        /\ procs[p].res.status = 200
                        /\ procs[p].req.id = "wamid-1"
    /\ messages[1].status = "read" /\ messages[1].readAt # 0
    /\ messages[2].whatsappMessageId = "wamid-2"
    /\ messages[2].status = "delivered" /\ messages[2].readAt = 0

\* The message written by the completed status webhook of slot q is still as
\* that webhook left it.
AsLeftBy(q) ==
    /\ procs[q].op = "status" /\ procs[q].pc = "done" /\ procs[q].res.status = 200
    /\ LET m == messages[procs[q].loc.messageId]
           d == procs[q].loc.data
       IN  /\ m.status = d.status
           /\ m.deliveredAt = d.deliveredAt
           /\ m.readAt = d.readAt

\* C26: when a status webhook has been processed and the identical webhook
\* (same message id, status and timestamp) is processed next, the values the
\* second one will write are the values the first one left: the message ends
\* in exactly the state it was in after the first.
C26_ReplayIdempotent ==
    [][\A p, q \in Procs :
          (/\ AsLeftBy(q)
           /\ procs[p].pc = "idle"
           /\ procs'[p].op = "status" /\ procs'[p].pc = "update"
           /\ procs'[p].req = procs[q].req)
          => procs'[p].loc.data = procs[q].loc.data]_vars

\* C27: a createSession on an account the caller owns that lacks the provider
\* base URL or API key is answered with the configuration error in its first
\* step, before any provider call and with no row written; a createSession
\* step adds a Session only at its create stage, exactly one, in status
\* pending_qr for the requested account, and success is answered only after
\* that stage with that row.
C27_CreateSession ==
    [][\A p \in Procs :
          /\ (/\ procs[p].pc = "idle" /\ procs'[p].op = "createSession"
              /\ procs'[p].req.licensed
              /\ procs'[p].req.accountId \in Ids(accounts)
              /\ accounts[procs'[p].req.accountId].tenantId = procs'[p].req.tenantId
              /\ \/ ~accounts[procs'[p].req.accountId].wahaBaseUrl
                 \/ ~accounts[procs'[p].req.accountId].wahaApiKey)
             => /\ procs'[p].pc = "done"
                /\ procs'[p].res = Response(400, "WAHA configuration incomplete")
                /\ UNCHANGED <<tables, providerCalls>>
          /\ (procs[p].op = "createSession" /\ procs'[p] # procs[p])
             => IF procs[p].pc = "createSession"
                THEN /\ Len(sessions') = Len(sessions) + 1
                     /\ \A s \in Ids(sessions) : sessions'[s] = sessions[s]
                     /\ sessions'[Len(sessions')].status = "pending_qr"
                     /\ sessions'[Len(sessions')].accountId = procs[p].req.accountId
                ELSE sessions' = sessions
          /\ (/\ procs[p].op = "createSession" /\ procs[p].pc # "done"
              /\ procs'[p].pc = "done" /\ procs'[p].res.status = 201)
             => /\ procs[p].pc = "audit"
                /\ procs'[p].res.row = procs[p].loc.sessionId
                /\ sessions[procs[p].loc.sessionId].accountId = procs[p].req.accountId]_vars

\* The owner of account 2, which has a base URL and no API key, was answered
\* with the configuration error; no session was added and no call made.
C27_Witness ==
    /\ \E p \in Procs : /\ procs[p].op = "createSession" /\ procs[p].pc = "done"
                        /\ procs[p].req.accountId = 2 /\ procs[p].req.tenantId = "t2"
                        /\ procs[p].res = Response(400, "WAHA configuration incomplete")
    /\ accounts[2].wahaBaseUrl /\ ~accounts[2].wahaApiKey
    /\ \A s \in Ids(sessions) : sessions[s].accountId # 2
    /\ providerCalls = {}

\* C28: the step that completes a poll in which the provider was reached and
\* reported the session connected leaves the session with the number the
\* poll answers and with lastSyncAt and lastSeenAt at the time the handler
\* read the provider's answer, whether or not status or number differ from
\* the stored values.
C28_ConnectedPollRefreshes ==
    [][\A p \in Procs :
          (/\ procs[p].op = "poll" /\ procs[p].pc # "done"
           /\ procs'[p].pc = "done"
           /\ procs'[p].loc.reached /\ procs'[p].loc.newStatus = "connected")
          => LET session == sessions'[procs[p].req.sessionId] IN
             /\ session.phoneNumber = procs'[p].loc.newPhone
             /\ session.lastSyncAt = procs'[p].loc.syncAt
             /\ session.lastSeenAt = procs'[p].loc.syncAt]_vars

\* The contact of the conversation a send names has no ContactIdentity.
NoIdentity(req) ==
    /\ req.conversationId \in Ids(conversations)
    /\ \A i \in Ids(identities) :
           identities[i].contactId # conversations[req.conversationId].contactId

\* C29: no step of a send on a conversation whose contact has no
\* ContactIdentity calls the provider or writes a Message, the send never
\* succeeds, and its identity lookup ends it with 400 "Contact has no
\* WhatsApp number".
C29_MissingContactNumber ==
    [][\A p \in Procs :
          (/\ procs'[p].op = "send" /\ procs'[p] # procs[p]
           /\ NoIdentity(procs'[p].req))
          => /\ messages' = messages
             /\ providerCalls' = providerCalls
             /\ procs'[p].pc = "done" => procs'[p].res.status >= 400
             /\ procs[p].pc = "findIdentity"
                    => /\ procs'[p].pc = "done"
                       /\ procs'[p].res = Response(400, "Contact has no WhatsApp number")]_vars

\* A licensed, well-formed send by the owner on conversation 2, for which a
\* connected session was found, was turned away for the missing number with
\* nothing sent or stored.
C29_Witness ==
    /\ \E p \in Procs : /\ procs[p].op = "send" /\ procs[p].pc = "done"
                        /\ NoIdentity(procs[p].req)
                        /\ procs[p].loc # NoLoc
                        /\ procs[p].loc.session # NoSession
                        /\ procs[p].res = Response(400, "Contact has no WhatsApp number")
    /\ messages = <<>>
    /\ providerCalls = {}

\* Slot p has completed a status webhook with the given meaning.
StatusDone(p, meaning) ==
    /\ procs[p].op = "status" /\ procs[p].pc = "done" /\ procs[p].res.status = 200
    /\ StatusMeaning(procs[p].req.status) = meaning

\* C30: when a DELIVERED and a READ webhook for the same message, the only
\* two requests, have both read the message before either wrote it (the
\* DELIVERED one saw no readAt, the READ one no deliveredAt) and both have
\* completed, the message has status read, readAt at the read event's time
\* and deliveredAt set.
C30_DeliveredReadRace ==
    \A p, q \in Procs :
        (/\ started = 2
         /\ StatusDone(p, "delivered") /\ StatusDone(q, "read")
         /\ procs[p].loc.messageId = procs[q].loc.messageId
         /\ procs[p].loc.data.readAt = 0
         /\ procs[q].loc.data.deliveredAt = 0)
        => LET m == messages[procs[q].loc.messageId] IN
           /\ m.status = "read"
           /\ m.readAt = procs[q].loc.data.readAt
           /\ m.deliveredAt # 0

\* C31: the contact of every Conversation belongs to the tenant of the
\* conversation's account.
C31_ContactOfSameTenant ==
    \A c \in Ids(conversations) :
        contacts[conversations[c].contactId].tenantId
            = accounts[conversations[c].accountId].tenantId

\* C32: a licensed caller that fetches an existing conversation whose
\* account has the caller's tenantId is answered 200 with that conversation.
C32_OwnerGetsConversation ==
    [][\A p \in Procs :
          (/\ procs[p].pc = "idle" /\ procs'[p].op = "get"
           /\ procs'[p].req.licensed
           /\ procs'[p].req.conversationId \in Ids(conversations)
           /\ accounts[conversations[procs'[p].req.conversationId].accountId].tenantId
                  = procs'[p].req.tenantId)
          => procs'[p].res = ResponseRow(200, procs'[p].req.conversationId)]_vars

\* C33: the session a Conversation is bound to, and the session of every
\* Message, belong to the account of the conversation.
C33_SessionOfSameAccount ==
    /\ \A c \in Ids(conversations) :
           conversations[c].sessionId # 0
           => sessions[conversations[c].sessionId].accountId = conversations[c].accountId
    /\ \A m \in Ids(messages) :
           sessions[messages[m].sessionId].accountId
               = conversations[messages[m].conversationId].accountId

\* The owner has rebound conversation 1 to session 2 of its account.
C33_Witness ==
    /\ \E p \in Procs : /\ procs[p].op = "patch" /\ procs[p].pc = "done"
                        /\ procs[p].res.status = 200
                        /\ procs[p].req.conversationId = 1
                        /\ procs[p].req.sessionId = 2
    /\ conversations[1].sessionId = 2
    /\ sessions[2].accountId = conversations[1].accountId

\* C34: when a send and an inbound webhook on the same conversation, the only
\* two requests, have both completed with success, the conversation's
\* lastDirection is the direction of the Message row created last.
C34_LastDirectionOfLastMessage ==
    \A p, q \in Procs :
        (/\ started = 2
         /\ procs[p].op = "send" /\ procs[p].pc = "done" /\ procs[p].res.status = 201
         /\ procs[q].op = "inbound" /\ procs[q].pc = "done" /\ procs[q].res.status = 200
         /\ procs[q].loc.conversationId = procs[p].req.conversationId)
        => conversations[procs[p].req.conversationId].lastDirection
               = messages[Len(messages)].direction

\* C35: a Message that records a template records one of the account of its
\* conversation, and a send whose body comes from a template has called the
\* provider only with a template of the conversation's account.
C35_TemplateOfSameAccount ==
    /\ \A m \in Ids(messages) :
           messages[m].templateId \in Ids(templates)
           => templates[messages[m].templateId].accountId
                  = conversations[messages[m].conversationId].accountId
    /\ \A p \in Procs :
           (/\ procs[p].op = "send" /\ procs[p].loc # NoLoc
            /\ procs[p].loc.called
            /\ procs[p].req.text = "" /\ procs[p].req.mediaUrl = Undefined
            /\ procs[p].req.templateId \in Ids(templates))
           => templates[procs[p].req.templateId].accountId = procs[p].loc.accountId

\* The operations addressed by an account id, and a request to one of them
\* that passes the license and validation.
AccountOps == {"createSession", "template", "listSessions", "listTemplates", "analytics"}
AccountRequestValid(op, req) ==
    /\ req.licensed
    /\ req.accountId # 0
    /\ op = "template" => TemplateSchemaOk(req)

\* C37: a valid request to an operation addressed by account id is answered
\* 403 "Unauthorized" in its first step, with nothing written or called,
\* both when the account does not exist and when it belongs to another
\* tenant: the two cases get the same response.
C37_NoExistenceLeak ==
    [][\A p \in Procs :
          (/\ procs[p].pc = "idle" /\ procs'[p].op \in AccountOps
           /\ AccountRequestValid(procs'[p].op, procs'[p].req)
           /\ \/ procs'[p].req.accountId \notin Ids(accounts)
              \/ accounts[procs'[p].req.accountId].tenantId # procs'[p].req.tenantId)
          => /\ procs'[p].pc = "done"
             /\ procs'[p].res = Response(403, "Unauthorized")
             /\ UNCHANGED <<tables, providerCalls>>]_vars

\* A listing of the sessions of the unknown account 9 was answered as a
\* listing of another tenant's account is.
C37_Witness ==
    \E p \in Procs : /\ procs[p].op = "listSessions" /\ procs[p].pc = "done"
                     /\ procs[p].req.accountId \notin Ids(accounts)
                     /\ procs[p].req.licensed
                     /\ procs[p].res = Response(403, "Unauthorized")

\* An inbound webhook is at its conversation update for conversation c.
CountingInbound(c) ==
    \E p \in Procs : /\ procs[p].op = "inbound" /\ procs[p].pc = "updateConversation"
                     /\ procs[p].loc.conversationId = c
                     /\ procs'[p].pc = "updateSession"

\* C38: unreadCount counts the inbound Messages of a conversation. Whenever
\* every operation begun has run to its end, a conversation's unreadCount is
\* the number of inbound Message rows recorded in it; and step by step, the
\* only change unreadCount ever sees is the +1 of an inbound webhook's
\* conversation update: no send, conversation update, status webhook or
\* ticket creation lowers or resets it.
C38_UnreadCountsInbound ==
    /\ [](Quiescent =>
            \A c \in Ids(conversations) :
                conversations[c].unreadCount = Cardinality(InboundIn(c)))
    /\ [][\A c \in Ids(conversations) :
              /\ c \in Ids(conversations')
              /\ IF CountingInbound(c)
                    THEN conversations'[c].unreadCount = conversations[c].unreadCount + 1
                    ELSE conversations'[c].unreadCount = conversations[c].unreadCount]_vars

\* An inbound webhook has completed on a conversation that already had an
\* unread message: two inbound rows, unreadCount 2.
C38_Witness ==
    \E p \in Procs : /\ procs[p].op = "inbound" /\ procs[p].pc = "done"
                     /\ procs[p].res.status = 200
                     /\ procs[p].loc # NoLoc
                     /\ \E c \in Ids(conversations) :
                            /\ conversations[c].unreadCount = 2
                            /\ Cardinality(InboundIn(c)) = 2

\* The callback of slot p has exchanged its code for tokens and answered.
Exchanged(p) ==
    /\ procs[p].op = "oauth" /\ procs[p].pc = "done"
    /\ procs[p].loc # NoLoc
    /\ procs[p].loc.tokens # NoTokens

\* C39: once the callback has exchanged the authorization code for tokens,
\* the response it returns to the browser carries the access-token cookie,
\* and the refresh-token cookie when a refresh token was issued, so that the
\* browser's next request presents the access token.
C39_ReturnedResponseCarriesCookies ==
    \A p \in Procs :
        Exchanged(p) =>
            /\ CookieToken(procs[p].res) = procs[p].loc.tokens.access_token
            /\ procs[p].loc.tokens.refresh_token # "" =>
                   [name |-> "payaid_refresh_token",
                    value |-> procs[p].loc.tokens.refresh_token] \in procs[p].res.cookies

====
